---- MODULE Spec2Model ----
(***************************************************************************)
(* Model of the test-running commands of utool (utool_pkg/cmdtest.py) and  *)
(* uman (uman_pkg/cmdtest.py).                                             *)
(*                                                                         *)
(* Text is modelled as a sequence of one-character strings; the bytes read *)
(* from the sandbox process are the same, plus the two bytes of one        *)
(* two-byte UTF-8 character (ByteLead, ByteCont).                          *)
(***************************************************************************)
EXTENDS Integers, Sequences, FiniteSets, TLC

(***************************************************************************)
(* Bounds of the model                                                     *)
(***************************************************************************)
\* Longest test-output stream, in lines
MaxLines == 3
\* Longest chunk, in bytes, that one read hands to handle_output (a read may
\* also hand over everything that is left)
MaxChunk == 3
\* Longest stream of boot/error messages, in lines
MaxBootLines == 6
\* Largest number of parallel workers (args.jobs)
MaxJobs == 2

(***************************************************************************)
(* Characters, bytes and str.decode('utf-8', errors='replace')            *)
(***************************************************************************)
ByteLead == "xC3"
ByteCont == "xA9"
\* U+00E9, the character the two bytes encode
CharEAcute == "U+00E9"
\* U+FFFD, what errors='replace' puts for an undecodable byte
CharReplacement == "U+FFFD"

Digits == <<"0", "1", "2", "3", "4", "5", "6", "7", "8", "9">>

AsciiWord == {"a", "b", "c", "d", "e", "f", "g", "h", "i", "j", "k", "l", "m",
              "n", "o", "p", "q", "r", "s", "t", "u", "v", "w", "x", "y", "z",
              "A", "B", "C", "D", "E", "F", "G", "H", "I", "J", "K", "L", "M",
              "N", "O", "P", "Q", "R", "S", "T", "U", "V", "W", "X", "Y", "Z",
              "0", "1", "2", "3", "4", "5", "6", "7", "8", "9", "_"}

\* \d of a str pattern
IsDigit(c) == \E k \in 1..10 : Digits[k] = c
\* \w of a str pattern: Unicode word characters
IsWord(c) == c \in AsciiWord \/ c = CharEAcute
\* \s
IsSpace(c) == c \in {" ", "\t", "\n", "\r"}
\* \S
IsNonSpace(c) == ~IsSpace(c)

RECURSIVE DecodeFrom(_, _)
DecodeFrom(data, i) ==
    IF i > Len(data) THEN <<>>
    ELSE IF data[i] = ByteLead
         THEN IF i < Len(data) /\ data[i + 1] = ByteCont
              THEN <<CharEAcute>> \o DecodeFrom(data, i + 2)
              ELSE <<CharReplacement>> \o DecodeFrom(data, i + 1)
    ELSE IF data[i] = ByteCont
         THEN <<CharReplacement>> \o DecodeFrom(data, i + 1)
    ELSE <<data[i]>> \o DecodeFrom(data, i + 1)

\* data.decode('utf-8', errors='replace')
Decode(data) == DecodeFrom(data, 1)

(***************************************************************************)
(* String helpers                                                          *)
(***************************************************************************)
\* lit occurs in s at index i
LitAt(s, i, lit) ==
    /\ i >= 1
    /\ i + Len(lit) - 1 <= Len(s)
    /\ \A k \in 1..Len(lit) : s[i + k - 1] = lit[k]

\* pat in line
Contains(line, pat) == \E i \in 1..Len(line) : LitAt(line, i, pat)

\* index after the longest run of characters of class C that starts at i
SpanEnd(s, i, C(_)) ==
    CHOOSE j \in i..(Len(s) + 1) :
        /\ \A k \in i..(j - 1) : C(s[k])
        /\ j = Len(s) + 1 \/ ~C(s[j])

RECURSIVE ToInt(_)
\* int(digits)
ToInt(ds) ==
    IF ds = <<>> THEN 0
    ELSE 10 * ToInt(SubSeq(ds, 1, Len(ds) - 1))
         + (CHOOSE k \in 1..10 : Digits[k] = ds[Len(ds)]) - 1

\* line.strip() is not empty
StripNonEmpty(line) == \E i \in 1..Len(line) : IsNonSpace(line[i])

RECURSIVE SplitNL(_)
\* text.split('\n')
SplitNL(text) ==
    IF \A i \in 1..Len(text) : text[i] # "\n" THEN <<text>>
    ELSE LET j == CHOOSE i \in 1..Len(text) :
                      text[i] = "\n" /\ \A k \in 1..(i - 1) : text[k] # "\n"
         IN <<SubSeq(text, 1, j - 1)>> \o SplitNL(SubSeq(text, j + 1, Len(text)))

\* text.splitlines(), for text whose only line boundary is '\n'
SplitLines(text) ==
    LET parts == SplitNL(text)
    IN IF parts[Len(parts)] = <<>> THEN SubSeq(parts, 1, Len(parts) - 1)
       ELSE parts

\* seq[-n:]
LastN(seq, n) ==
    IF Len(seq) <= n THEN seq ELSE SubSeq(seq, Len(seq) - n + 1, Len(seq))

\* ''.join(lines), each line followed by '\n'
RECURSIVE JoinLines(_)
JoinLines(lines) ==
    IF lines = <<>> THEN <<>>
    ELSE Head(lines) \o <<"\n">> \o JoinLines(Tail(lines))

(***************************************************************************)
(* The regular expressions of TestProgress.handle_output                   *)
(***************************************************************************)
LitRunning == <<"R", "u", "n", "n", "i", "n", "g", " ">>
LitTests == <<" ", "t", "e", "s", "t", "s">>
LitTest == <<"T", "e", "s", "t", ":", " ">>
LitColonSp == <<":", " ">>
LitTestsRun == <<"T", "e", "s", "t", "s", " ", "r", "u", "n", ":", " ">>
LitFailures == <<"f", "a", "i", "l", "u", "r", "e", "s", ":", " ">>

NoMatch == [ok |-> FALSE, g1 |-> <<>>, g2 |-> <<>>]

\* re.match(r'Running (\d+) (\w+) tests', line)
MatchRunning(line) ==
    IF ~LitAt(line, 1, LitRunning) THEN NoMatch
    ELSE LET d0 == Len(LitRunning) + 1
             d1 == SpanEnd(line, d0, IsDigit)
             w1 == SpanEnd(line, d1 + 1, IsWord)
         IN IF /\ d1 > d0
               /\ LitAt(line, d1, <<" ">>)
               /\ w1 > d1 + 1
               /\ LitAt(line, w1, LitTests)
            THEN [ok |-> TRUE, g1 |-> SubSeq(line, d0, d1 - 1),
                  g2 |-> SubSeq(line, d1 + 1, w1 - 1)]
            ELSE NoMatch

\* re.match(r'Test: (\w+): (\S+)', line)
MatchTest(line) ==
    IF ~LitAt(line, 1, LitTest) THEN NoMatch
    ELSE LET w0 == Len(LitTest) + 1
             w1 == SpanEnd(line, w0, IsWord)
             f0 == w1 + Len(LitColonSp)
             f1 == SpanEnd(line, f0, IsNonSpace)
         IN IF w1 > w0 /\ LitAt(line, w1, LitColonSp) /\ f1 > f0
            THEN [ok |-> TRUE, g1 |-> SubSeq(line, w0, w1 - 1),
                  g2 |-> SubSeq(line, f0, f1 - 1)]
            ELSE NoMatch

\* re.match(r'Tests run: (\d+),.*failures: (\d+)', line)
MatchTestsRun(line) ==
    IF ~LitAt(line, 1, LitTestsRun) THEN NoMatch
    ELSE LET d0 == Len(LitTestsRun) + 1
             d1 == SpanEnd(line, d0, IsDigit)
             \* where 'failures: ' and a digit can follow the greedy '.*'
             places == {p \in (d1 + 1)..Len(line) :
                            /\ LitAt(line, p, LitFailures)
                            /\ p + Len(LitFailures) <= Len(line)
                            /\ IsDigit(line[p + Len(LitFailures)])}
         IN IF d1 > d0 /\ LitAt(line, d1, <<",">>) /\ places # {}
            THEN LET p == CHOOSE q \in places : \A r \in places : r <= q
                     e0 == p + Len(LitFailures)
                 IN [ok |-> TRUE, g1 |-> SubSeq(line, d0, d1 - 1),
                     g2 |-> SubSeq(line, e0, SpanEnd(line, e0, IsDigit) - 1)]
            ELSE NoMatch

PatExpected == <<"E", "x", "p", "e", "c", "t", "e", "d">>
PatFailed == <<"f", "a", "i", "l", "e", "d">>
PatAssert == <<"A", "S", "S", "E", "R", "T">>
PatError == <<"E", "r", "r", "o", "r">>
PatFailure == <<"F", "a", "i", "l", "u", "r", "e">>

\* fail_patterns of _check_test_failure
\* A list of patterns that lacks 'Error'
fail_patterns_NoError == {PatExpected, PatFailed, PatAssert, PatFailure}

fail_patterns == {PatExpected, PatFailed, PatAssert, PatError, PatFailure}

(***************************************************************************)
(* State                                                                   *)
(***************************************************************************)
VARIABLES
    cmd,         \* the command run: "seq" (utool run_tests, one process),
                 \* "par" (utool run_tests_parallel) or "uman" (uman run_tests)
    jobs,        \* number of sandbox processes (args.jobs; 1 when sequential)
    pending,     \* per process: the bytes of its output that are still unread
                 \* (sequential: the rest of the line it is writing)
    consumed,    \* per process: the bytes read from it so far
    pc,          \* per worker: "start", "running", "done" or "crashed"
    progs,       \* per worker: its TestProgress
    shared,      \* the SharedProgress: [total, run]
    results,     \* per worker: its WorkerResult (proc.returncode when sequential)
    stdout,      \* what has been written to the terminal, in order
    main_pc,     \* "run" until the command returns, then "done"
    exit_code,   \* the value the command returned
    uman,        \* uman run_tests: the process result and arguments it was given
    predicted,   \* utool run_tests: the predicted number of tests
    lock,        \* SharedProgress.lock and the threads at SharedProgress.increment
    front,       \* a test command before it runs the tests: specs, fixtures,
                 \* the processes it has started
    pol,         \* uman do_pollute: the search for a polluting test
    bis,         \* uman do_bisect: the repository, the builds and the git
                 \* commands it has run
    sel          \* the selection of tests: arguments, inventory and what the
                 \* parse, resolve and validate steps made of them; in a
                 \* prediction, the test records and the counts predicted

vars == <<cmd, jobs, pending, consumed, pc, progs, shared, results, stdout, main_pc,
          exit_code, uman, predicted, lock, front, pol, bis, sel>>

\* The variables that the run of the tests leaves alone
others == <<lock, front, pol, bis, sel>>

\* The value of lock, front, pol, bis and sel in a run that does not use them
Off == [pc |-> "off"]

\* One write to the terminal
Ev(kind, text, a, b) == [kind |-> kind, text |-> text, a |-> a, b |-> b]

\* cur_test = None
NoTest == [open |-> FALSE, name |-> <<>>, output |-> <<>>]

\* TestProgress.__init__
NewTestProgress(predicted_total, specs) ==
    [total |-> predicted_total,
     run |-> 0,
     suite |-> IF specs # <<>> THEN specs[1][1] ELSE <<>>,
     specs |-> specs,
     spec_idx |-> 0,
     failures |-> 0,
     output_lines |-> <<>>,
     failed_tests |-> <<>>,
     test_results |-> <<>>,
     cur_test |-> NoTest,
     silent |-> FALSE,
     shared |-> FALSE,
     line_buf |-> <<>>]

\* TestCounts, or None when nothing was counted
NoCounts == [none |-> TRUE, passed |-> 0, failed |-> 0, skipped |-> 0]

\* WorkerResult.__init__
NewWorkerResult ==
    [returncode |-> 0, run |-> 0, failed_tests |-> <<>>, test_results |-> <<>>,
     output_lines |-> <<>>]

(***************************************************************************)
(* TestProgress: st is [p: the TestProgress, sh: the SharedProgress,       *)
(* out: the terminal]                                                      *)
(***************************************************************************)
Write(st, ev) == [st EXCEPT !.out = Append(@, ev)]

\* TestProgress._show_progress
ShowProgress(st) ==
    IF st.p.silent THEN st
    ELSE Write(st, Ev("progress", st.p.suite, st.p.run, st.p.total))

\* TestProgress.clear_progress
ClearProgress(st) ==
    IF st.p.silent THEN st
    ELSE Write(st, Ev("clear", <<>>, 0, 0))

\* SharedProgress.increment: under the lock, count and display
SharedIncrement(st) ==
    LET n == st.sh.run + 1
    IN [st EXCEPT !.sh.run = n,
                  !.out = Append(@, Ev("progress", <<>>, n, st.sh.total))]

\* any(pat in line for pat in fail_patterns)
HasFailPattern(line) == \E pat \in fail_patterns : Contains(line, pat)

\* is_failure of _check_test_failure
IsFailure(output) ==
    output # <<>> /\ \E i \in 1..Len(output) : HasFailPattern(output[i])

RECURSIVE PrintDiag(_, _)
\* for line in output: print(f'  {line}')
PrintDiag(st, output) ==
    IF output = <<>> THEN st
    ELSE PrintDiag(Write(st, Ev("diag", <<" ", " ">> \o Head(output), 0, 0)),
                   Tail(output))

\* TestProgress._check_test_failure
CheckTestFailure(st) ==
    IF ~st.p.cur_test.open THEN st
    ELSE LET name == st.p.cur_test.name
             output == st.p.cur_test.output
             is_failure == IsFailure(output)
             st1 == [st EXCEPT !.p.test_results =
                         Append(@, <<st.p.suite, name, ~is_failure>>)]
             st2 == IF is_failure
                    THEN LET c == ClearProgress(st1)
                             h == Write(c, Ev("fail",
                                              st.p.suite \o <<" ">> \o name, 0, 0))
                             d == PrintDiag(h, output)
                         IN [d EXCEPT !.p.failed_tests =
                                 Append(@, <<st.p.suite, name>>)]
                    ELSE st1
         IN [st2 EXCEPT !.p.cur_test = NoTest]

\* handle_output, "Parse 'Running N suite tests'": m is the match
OnRunning(st, m) ==
    [st EXCEPT !.p.total = IF @ = 0 THEN ToInt(m.g1) ELSE @,
               !.p.suite = m.g2]

\* The new test is opened and counted, and the progress shown
OpenTest(c, m) ==
    LET o == [c EXCEPT !.p.cur_test = [open |-> TRUE, name |-> m.g1,
                                       output |-> <<>>],
                       !.p.run = @ + 1]
    IN IF o.p.shared THEN SharedIncrement(o) ELSE ShowProgress(o)

\* handle_output, "Parse 'Test: name: file.c'"
OnTest(st, m) == OpenTest(CheckTestFailure(st), m)

\* The summary line is recorded and the next spec's suite becomes current
CloseSuite(c, m) ==
    [c EXCEPT !.p.failures = ToInt(m.g2),
              !.p.spec_idx = @ + 1,
              !.p.suite = IF c.p.spec_idx + 1 < Len(c.p.specs)
                          THEN c.p.specs[c.p.spec_idx + 2][1] ELSE @]

\* A parser that counts the summary line as a test
OnFinalCounts(st, m) ==
    [CloseSuite(CheckTestFailure(st), m) EXCEPT !.p.run = @ + 1]

\* handle_output, "Parse final result"
OnFinal(st, m) == CloseSuite(CheckTestFailure(st), m)

\* handle_output, "Collect output for current test"
OnOther(st, line) ==
    IF st.p.cur_test.open /\ StripNonEmpty(line)
    THEN [st EXCEPT !.p.cur_test.output = Append(@, line)]
    ELSE st

\* The body of the loop of handle_output, for one complete line
ProcessLine(st, line) ==
    IF MatchRunning(line).ok THEN OnRunning(st, MatchRunning(line))
    ELSE IF MatchTest(line).ok THEN OnTest(st, MatchTest(line))
    ELSE IF MatchTestsRun(line).ok THEN OnFinal(st, MatchTestsRun(line))
    ELSE OnOther(st, line)

RECURSIVE ProcessLines(_, _)
\* for line in lines
ProcessLines(st, lines) ==
    IF lines = <<>> THEN st
    ELSE ProcessLines(ProcessLine(st, Head(lines)), Tail(lines))

\* TestProgress.handle_output. output_lines holds the chunks joined, which is
\* the only way the program reads it
HandleOutput(st, data) ==
    LET text == Decode(data)
        lines == SplitNL(st.p.line_buf \o text)
        st1 == [st EXCEPT !.p.output_lines = @ \o text,
                          !.p.line_buf = lines[Len(lines)]]
    IN ProcessLines(st1, SubSeq(lines, 1, Len(lines) - 1))

(***************************************************************************)
(* What the sandbox process can write                                      *)
(***************************************************************************)
LineRunning == <<"R", "u", "n", "n", "i", "n", "g", " ", "2", " ", "l", "i", "b",
                 " ", "t", "e", "s", "t", "s">>
LineTest == <<"T", "e", "s", "t", ":", " ", "a", ":", " ", "f">>
\* a test whose name is the two-byte character
LineTestU == <<"T", "e", "s", "t", ":", " ", ByteLead, ByteCont, ":", " ", "f">>
LineTestsRun == <<"T", "e", "s", "t", "s", " ", "r", "u", "n", ":", " ", "1", ",",
                  " ", "f", "a", "i", "l", "u", "r", "e", "s", ":", " ", "1">>
LineError == <<"E", "r", "r", "o", "r">>
LineResultFail == <<"R", "e", "s", "u", "l", "t", ":", " ", "F", "A", "I", "L",
                    ":", " ", "a">>
LineBlank == <<" ">>
LineBoot == <<"x">>

TestLines == {LineRunning, LineTest, LineTestU, LineTestsRun, LineError,
              LineResultFail, LineBlank}
BootLines == {LineBoot, LineBlank}

\* number of '\n' in text
CountNL(text) == Cardinality({i \in 1..Len(text) : text[i] = "\n"})

\* What the sequential process may write next, given the text it has written:
\* a line of test output while it has written fewer than MaxLines lines, a
\* boot message while it has written only boot messages, fewer than
\* MaxBootLines of them; or a last line that it never terminates. Nothing
\* after an unterminated line.
NextWrites(written) ==
    LET n == CountNL(written)
        ended == written # <<>> /\ written[Len(written)] # "\n"
        boot == \A i \in 1..n : SplitNL(written)[i] \in BootLines
    IN IF ended THEN {}
       ELSE {l \o <<"\n">> : l \in IF n < MaxLines THEN TestLines ELSE {}}
            \cup {l \o <<"\n">> :
                     l \in IF boot /\ n < MaxBootLines THEN BootLines ELSE {}}
            \cup (IF n < MaxLines THEN {LineTest} ELSE {})

RECURSIVE Reads(_, _, _)
\* The chunks of at most budget bytes that a read can return when pend is
\* unread and written is the text written before pend: [data, rest], rest
\* being what stays unread of the line the chunk ends in
Reads(pend, written, budget) ==
    {[data |-> SubSeq(pend, 1, k), rest |-> SubSeq(pend, k + 1, Len(pend))] :
         k \in 1..(IF Len(pend) < budget THEN Len(pend) ELSE budget)}
    \cup
    IF Len(pend) >= budget THEN {}
    ELSE UNION {{[data |-> pend \o r.data, rest |-> r.rest] :
                    r \in Reads(l, written \o pend, budget - Len(pend))} :
                l \in NextWrites(written \o pend)}

\* The output of one parallel worker
\* a second test, so that the workers' failures can be told apart
LineTestB == <<"T", "e", "s", "t", ":", " ", "b", ":", " ", "f">>

ParStreams ==
    {JoinLines(<<LineTest, LineError, LineTestsRun>>),
     JoinLines(<<LineTestB, LineError, LineTestsRun>>),
     JoinLines(<<LineTest, LineTestsRun>>),
     JoinLines(<<LineBoot>>)}

SuiteDm == <<"d", "m">>
SuiteLib == <<"l", "i", "b">>

\* (predicted, specs) of a sequential run: specs are (suite, pattern) pairs
SeqConfigs ==
    {[predicted |-> 0, specs |-> << <<SuiteDm, <<>> >> >>],
     [predicted |-> 2, specs |-> << <<SuiteDm, <<>> >>, <<SuiteLib, <<>> >> >>]}

\* proc.returncode
ReturnCodes == {0, 1}

Workers == 0..(jobs - 1)

(***************************************************************************)
(* Initial state: the command has been given its arguments and is about to *)
(* start its process(es)                                                   *)
(***************************************************************************)
InitSeq ==
    /\ cmd = "seq"
    /\ jobs = 1
    /\ pending = [w \in 0..0 |-> <<>>]
    /\ consumed = [w \in 0..0 |-> <<>>]
    /\ pc = [w \in 0..0 |-> "start"]
    /\ \E c \in SeqConfigs :
           /\ predicted = c.predicted
           /\ progs = [w \in 0..0 |-> NewTestProgress(c.predicted, c.specs)]
    /\ shared = [total |-> 0, run |-> 0]
    /\ results = [w \in 0..0 |-> NewWorkerResult]

InitPar ==
    /\ cmd = "par"
    /\ jobs \in 2..MaxJobs
    /\ pending \in [0..(jobs - 1) -> ParStreams]
    /\ consumed = [w \in 0..(jobs - 1) |-> <<>>]
    /\ pc = [w \in 0..(jobs - 1) |-> "start"]
    /\ progs = [w \in 0..(jobs - 1) |->
                   [NewTestProgress(0, <<>>) EXCEPT !.silent = TRUE,
                                                    !.shared = TRUE]]
    /\ predicted \in {0, 2}
    /\ shared = [total |-> predicted, run |-> 0]
    /\ results = [w \in 0..(jobs - 1) |-> NewWorkerResult]

InitUman ==
    /\ cmd = "uman"
    /\ jobs = 1
    /\ pending = [w \in 0..0 |-> <<>>]
    /\ consumed = [w \in 0..0 |-> <<>>]
    /\ pc = [w \in 0..0 |-> "done"]
    /\ progs = [w \in 0..0 |-> NewTestProgress(0, <<>>)]
    /\ shared = [total |-> 0, run |-> 0]
    /\ results = [w \in 0..0 |-> NewWorkerResult]
    /\ predicted = 0

Init ==
    /\ InitSeq \/ InitPar \/ InitUman
    /\ lock = Off
    /\ front = Off
    /\ pol = Off
    /\ bis = Off
    /\ sel = Off
    /\ stdout = <<>>
    /\ main_pc = "run"
    /\ exit_code = 0
    /\ uman = [launched |-> FALSE,
               proc |-> [has_result |-> FALSE, stdout |-> <<>>, return_code |-> 0],
               args |-> [results |-> FALSE, test_verbose |-> FALSE,
                         legacy |-> FALSE],
               res |-> NoCounts]

(***************************************************************************)
(* The worker: cros_subprocess.Popen, communicate_filter(handle_output)    *)
(***************************************************************************)
\* Popen succeeds
ProcStart(w) ==
    /\ main_pc = "run"
    /\ pc[w] = "start"
    /\ pc' = [pc EXCEPT ![w] = "running"]
    /\ UNCHANGED <<cmd, jobs, pending, consumed, progs, shared, results, stdout, main_pc,
                   exit_code, uman, predicted, others>>

\* The next chunk: when sequential, any cut of at most MaxChunk bytes of what
\* the process writes; in parallel mode the reads are taken a line at a time
Chunks(w) ==
    IF cmd = "seq"
    THEN Reads(pending[w], consumed[w], MaxChunk)
    ELSE IF pending[w] = <<>> THEN {}
    ELSE LET n == Len(SplitNL(pending[w])[1]) + 1
         IN {[data |-> SubSeq(pending[w], 1, n),
              rest |-> SubSeq(pending[w], n + 1, Len(pending[w]))]}

\* communicate_filter reads a chunk and calls prog.handle_output
ProcOutput(w) ==
    /\ pc[w] = "running"
    /\ \E c \in Chunks(w) :
           LET st == HandleOutput([p |-> progs[w], sh |-> shared, out |-> stdout],
                                  c.data)
           IN /\ progs' = [progs EXCEPT ![w] = st.p]
              /\ shared' = st.sh
              /\ stdout' = st.out
              /\ pending' = [pending EXCEPT ![w] = c.rest]
              /\ consumed' = [consumed EXCEPT ![w] = @ \o c.data]
    /\ UNCHANGED <<cmd, jobs, pc, results, main_pc, exit_code, uman, predicted, others>>

\* The process has written everything and exits; communicate_filter returns
\* and, in run_worker, the results are stored
ProcExit(w) ==
    /\ pc[w] = "running"
    /\ pending[w] = <<>>
    /\ \E rc \in ReturnCodes :
           results' = [results EXCEPT ![w] =
                          [returncode |-> rc,
                           run |-> progs[w].run,
                           failed_tests |-> progs[w].failed_tests,
                           test_results |-> progs[w].test_results,
                           output_lines |-> progs[w].output_lines]]
    /\ pc' = [pc EXCEPT ![w] = "done"]
    /\ UNCHANGED <<cmd, jobs, pending, consumed, progs, shared, stdout, main_pc, exit_code,
                   uman, predicted, others>>

\* Popen raises in the worker's thread: the thread ends and its WorkerResult
\* keeps the values of WorkerResult.__init__
ProcStartFails(w) ==
    /\ cmd = "par"
    /\ main_pc = "run"
    /\ pc[w] = "start"
    /\ pc' = [pc EXCEPT ![w] = "crashed"]
    /\ UNCHANGED <<cmd, jobs, pending, consumed, progs, shared, results, stdout, main_pc,
                   exit_code, uman, predicted, others>>

(***************************************************************************)
(* Printing helpers of the commands                                        *)
(***************************************************************************)
LitUTestU == <<"_", "t", "e", "s", "t", "_">>

RECURSIVE PrintEach(_, _, _)
\* for x in items: print(x), each as an event of the given kind
PrintEach(out, kind, items) ==
    IF items = <<>> THEN out
    ELSE PrintEach(Append(out, Ev(kind, Head(items), 0, 0)), kind, Tail(items))

\* prog.output_lines[-5:] of show_error_output
TailCount == 5

\* Every line that is not blank, not only the last ones
ErrorLinesAll(output_lines) == SelectSeq(SplitLines(output_lines), StripNonEmpty)

\* The lines show_error_output prints: the last few lines that are not blank
ErrorLines(output_lines) ==
    LET last == LastN(SplitLines(output_lines), TailCount)
    IN SelectSeq(last, StripNonEmpty)

\* show_error_output(prog)
ShowErrorOutput(out, output_lines) ==
    PrintEach(out, "line", ErrorLines(output_lines))

RECURSIVE ShowResultsFrom(_, _)
\* TestProgress.show_results: a is 1 for PASS, 0 for FAIL
ShowResultsFrom(out, test_results) ==
    IF test_results = <<>> THEN out
    ELSE LET r == Head(test_results)
             text == IF Contains(r[2], LitUTestU) THEN r[2]
                     ELSE r[1] \o LitUTestU \o r[2]
         IN ShowResultsFrom(
                Append(out, Ev("result", text, IF r[3] THEN 1 ELSE 0, 0)),
                Tail(test_results))

\* The code points of the word characters, in order
CodeOrder ==
    <<"0", "1", "2", "3", "4", "5", "6", "7", "8", "9", "A",
      "B", "C", "D", "E", "F", "G", "H", "I", "J", "K", "L",
      "M", "N", "O", "P", "Q", "R", "S", "T", "U", "V", "W",
      "X", "Y", "Z", "_", "a", "b", "c", "d", "e", "f", "g",
      "h", "i", "j", "k", "l", "m", "n", "o", "p", "q", "r",
      "s", "t", "u", "v", "w", "x", "y", "z",
      CharEAcute>>
CodePoint(c) == CHOOSE k \in 1..Len(CodeOrder) : CodeOrder[k] = c

\* s < t for str
StrLess(s, t) ==
    \E k \in 1..(Len(t)) :
        /\ \A j \in 1..(k - 1) : j <= Len(s) /\ s[j] = t[j]
        /\ k > Len(s) \/ CodePoint(s[k]) < CodePoint(t[k])

\* a < b for (suite, name, passed) tuples
ResultLess(a, b) ==
    \/ StrLess(a[1], b[1])
    \/ a[1] = b[1] /\ StrLess(a[2], b[2])
    \/ a[1] = b[1] /\ a[2] = b[2] /\ ~a[3] /\ b[3]

RECURSIVE Sorted(_)
\* sorted(all_results): a stable insertion sort
Sorted(rs) ==
    IF rs = <<>> THEN <<>>
    ELSE LET init == Sorted(SubSeq(rs, 1, Len(rs) - 1))
             x == rs[Len(rs)]
             k == Cardinality({i \in 1..Len(init) : ~ResultLess(x, init[i])})
         IN SubSeq(init, 1, k) \o <<x>> \o SubSeq(init, k + 1, Len(init))

RECURSIVE ShowParResults(_, _)
\* the args.results loop of run_tests_parallel
ShowParResults(out, rs) ==
    IF rs = <<>> THEN out
    ELSE LET r == Head(rs)
         IN ShowParResults(
                Append(out, Ev("result", r[1] \o LitUTestU \o r[2],
                               IF r[3] THEN 1 ELSE 0, 0)),
                Tail(rs))

(***************************************************************************)
(* utool run_tests, single-threaded: after communicate_filter              *)
(***************************************************************************)
\* return 1 if prog.failed_tests else proc.returncode
SeqExitCode(prog, returncode) ==
    IF prog.failed_tests # <<>> THEN 1 ELSE returncode

\* what run_tests prints after the process has ended
SeqReport(prog, returncode, args_results, out) ==
    LET c == ClearProgress([p |-> prog, sh |-> shared, out |-> out]).out
        r == IF args_results THEN ShowResultsFrom(c, prog.test_results) ELSE c
    IN IF prog.failed_tests # <<>>
       THEN Append(r, Ev("summary_failed", <<>>, Len(prog.failed_tests), prog.run))
       ELSE IF prog.run = 0 /\ returncode # 0
       THEN ShowErrorOutput(r, prog.output_lines)
       ELSE Append(r, Ev("summary", <<>>, prog.run, 0))

RunTestsFinish ==
    /\ cmd = "seq"
    /\ main_pc = "run"
    /\ pc[0] = "done"
    /\ \E args_results \in BOOLEAN :
           stdout' = SeqReport(progs[0], results[0].returncode, args_results,
                               stdout)
    /\ exit_code' = SeqExitCode(progs[0], results[0].returncode)
    /\ main_pc' = "done"
    /\ UNCHANGED <<cmd, jobs, pending, consumed, pc, progs, shared, results, uman, predicted, others>>

(***************************************************************************)
(* utool run_tests_parallel: after every thread has been joined            *)
(***************************************************************************)
RECURSIVE SumRun(_, _)
\* sum(r.run for r in results), over the first n results
SumRun(rs, n) == IF n = 0 THEN 0 ELSE SumRun(rs, n - 1) + rs[n - 1].run

RECURSIVE AllFailedReversed(_, _)
\* The failures gathered from the last worker to the first
AllFailedReversed(rs, n) ==
    IF n = 0 THEN <<>> ELSE rs[n - 1].failed_tests \o AllFailedReversed(rs, n - 1)

RECURSIVE AllFailed(_, _)
\* all_failed: the workers' failed_tests, extended in the order of results
AllFailed(rs, n) ==
    IF n = 0 THEN <<>> ELSE AllFailed(rs, n - 1) \o rs[n - 1].failed_tests

RECURSIVE AllResults(_, _)
\* all_results
AllResults(rs, n) ==
    IF n = 0 THEN <<>> ELSE AllResults(rs, n - 1) \o rs[n - 1].test_results

\* any(r.returncode for r in results)
AnyError(rs, n) == \E w \in 0..(n - 1) : rs[w].returncode # 0

RECURSIVE PrintFailed(_, _)
\* for suite, name in all_failed: print(f'{suite} {name}')
PrintFailed(out, failed) ==
    IF failed = <<>> THEN out
    ELSE PrintFailed(
             Append(out, Ev("fail", Head(failed)[1] \o <<" ">> \o Head(failed)[2],
                            0, 0)),
             Tail(failed))

\* the value run_tests_parallel returns
ParExitCode(rs, n) ==
    IF AllFailed(rs, n) # <<>> THEN 1
    ELSE IF SumRun(rs, n) = 0 /\ AnyError(rs, n) THEN 1
    ELSE IF AnyError(rs, n) THEN 1 ELSE 0

\* what run_tests_parallel prints after joining the threads
ParReport(rs, n, args_results, out) ==
    LET c == Append(out, Ev("clear", <<>>, 0, 0))
        r == IF args_results THEN ShowParResults(c, Sorted(AllResults(rs, n)))
             ELSE c
        all_failed == AllFailed(rs, n)
        total_run == SumRun(rs, n)
    IN IF all_failed # <<>>
       THEN Append(PrintFailed(r, all_failed),
                   Ev("summary_failed", <<>>, Len(all_failed), total_run))
       ELSE IF total_run = 0 /\ AnyError(rs, n)
       THEN LET first == CHOOSE w \in 0..(n - 1) :
                             /\ rs[w].returncode # 0
                             /\ \A v \in 0..(w - 1) : rs[v].returncode = 0
            IN ShowErrorOutput(r, rs[first].output_lines)
       ELSE Append(r, Ev("summary", <<>>, total_run, 0))

RunTestsParallelFinish ==
    /\ cmd = "par"
    /\ main_pc = "run"
    /\ \A w \in Workers : pc[w] \in {"done", "crashed"}
    /\ \E args_results \in BOOLEAN :
           stdout' = ParReport(results, jobs, args_results, stdout)
    /\ exit_code' = ParExitCode(results, jobs)
    /\ main_pc' = "done"
    /\ UNCHANGED <<cmd, jobs, pending, consumed, pc, progs, shared, results,
                   uman, predicted, others>>

(***************************************************************************)
(* uman: parse_results, parse_legacy_results, run_tests                    *)
(***************************************************************************)
LitResultColon == <<"R", "e", "s", "u", "l", "t", ":">>
LitPass == <<"P", "A", "S", "S">>
LitFail == <<"F", "A", "I", "L">>
LitSkip == <<"S", "K", "I", "P">>
LitTestColon == <<"T", "e", "s", "t", ":">>
LitDotsOk == <<".", ".", ".", " ", "o", "k">>
LitDotsFailed == <<".", ".", ".", " ", "f", "a", "i", "l", "e", "d">>
LitDotsSkipped == <<".", ".", ".", " ", "s", "k", "i", "p", "p", "e", "d">>
UpperCase == <<"A", "B", "C", "D", "E", "F", "G", "H", "I", "J", "K", "L", "M", "N", "O", "P", "Q", "R", "S", "T", "U", "V", "W", "X", "Y", "Z">>
LowerCase == <<"a", "b", "c", "d", "e", "f", "g", "h", "i", "j", "k", "l", "m", "n", "o", "p", "q", "r", "s", "t", "u", "v", "w", "x", "y", "z">>

\* line.lower()
Lower(line) ==
    [i \in 1..Len(line) |->
        IF \E k \in 1..26 : UpperCase[k] = line[i]
        THEN LowerCase[CHOOSE k \in 1..26 : UpperCase[k] = line[i]]
        ELSE line[i]]

\* RE_RESULT.match(line), r'Result:\s*(PASS|FAIL|SKIP):?\s+(\S+)', from the name:
\* c1 is where the status and its colon end, n0 where the white space ends
MatchResultName(line, status, c1, n0) ==
    IF n0 > c1 /\ SpanEnd(line, n0, IsNonSpace) > n0
    THEN [ok |-> TRUE, g1 |-> status,
          g2 |-> SubSeq(line, n0, SpanEnd(line, n0, IsNonSpace) - 1)]
    ELSE NoMatch

\* RE_RESULT.match(line) from the optional colon, at c0
MatchResultColon(line, status, c0) ==
    IF LitAt(line, c0, <<":">>)
    THEN MatchResultName(line, status, c0 + 1, SpanEnd(line, c0 + 1, IsSpace))
    ELSE MatchResultName(line, status, c0, SpanEnd(line, c0, IsSpace))

\* RE_RESULT.match(line) from the status, at s0
MatchResultStatus(line, s0) ==
    IF \E st \in {LitPass, LitFail, LitSkip} : LitAt(line, s0, st)
    THEN MatchResultColon(line, SubSeq(line, s0, s0 + 3), s0 + 4)
    ELSE NoMatch

\* RE_RESULT.match(line)
MatchResult(line) ==
    IF ~LitAt(line, 1, LitResultColon) THEN NoMatch
    ELSE MatchResultStatus(line, SpanEnd(line, Len(LitResultColon) + 1, IsSpace))

\* RE_TEST_NAME.search(line): r'Test:\s*(\S+)', the leftmost match
SearchTestName(line) ==
    LET starts == {i \in 1..Len(line) :
                       /\ LitAt(line, i, LitTestColon)
                       /\ LET n0 == SpanEnd(line, i + Len(LitTestColon), IsSpace)
                          IN SpanEnd(line, n0, IsNonSpace) > n0}
    IN IF starts = {} THEN NoMatch
       ELSE LET i == CHOOSE j \in starts : \A k \in starts : j <= k
                n0 == SpanEnd(line, i + Len(LitTestColon), IsSpace)
            IN [ok |-> TRUE,
                g1 |-> SubSeq(line, n0, SpanEnd(line, n0, IsNonSpace) - 1),
                g2 |-> <<>>]

\* A status that falls back on the failure heuristic
ResultStatusHeuristic(line) ==
    IF MatchResult(line).ok
    THEN (IF MatchResult(line).g1 = LitPass THEN "PASS"
          ELSE IF MatchResult(line).g1 = LitFail THEN "FAIL" ELSE "SKIP")
    ELSE IF HasFailPattern(line) THEN "FAIL" ELSE ""

\* A status that falls back on the legacy format
ResultStatusWithLegacy(line) ==
    IF MatchResult(line).ok
    THEN (IF MatchResult(line).g1 = LitPass THEN "PASS"
          ELSE IF MatchResult(line).g1 = LitFail THEN "FAIL" ELSE "SKIP")
    ELSE IF Contains(Lower(line), <<".", ".", ".", " ", "o", "k">>) THEN "PASS"
    ELSE IF Contains(Lower(line), <<".", ".", ".", " ", "f", "a", "i", "l", "e", "d">>)
    THEN "FAIL"
    ELSE ""

\* The status parse_results gives a line: "PASS", "FAIL", "SKIP" or "" (none)
ResultStatus(line) ==
    LET m == MatchResult(line)
    IN IF ~m.ok THEN ""
       ELSE IF m.g1 = LitPass THEN "PASS"
       ELSE IF m.g1 = LitFail THEN "FAIL"
       ELSE "SKIP"

\* The status parse_legacy_results gives a line
LegacyStatus(line) ==
    LET lower == Lower(line)
    IN IF Contains(lower, LitDotsOk) THEN "PASS"
       ELSE IF Contains(lower, LitDotsFailed) THEN "FAIL"
       ELSE IF Contains(lower, LitDotsSkipped) THEN "SKIP"
       ELSE ""

RECURSIVE CountResults(_, _, _, _)
\* The loop of parse_results (legacy = FALSE) or parse_legacy_results
\* (legacy = TRUE) over lines[i..], from the counts in acc
CountResults(lines, i, legacy, acc) ==
    IF i > Len(lines) THEN acc
    ELSE LET status == IF legacy THEN LegacyStatus(lines[i])
                       ELSE ResultStatus(lines[i])
         IN CountResults(lines, i + 1, legacy,
                IF status = "PASS" THEN [acc EXCEPT !.passed = @ + 1]
                ELSE IF status = "FAIL" THEN [acc EXCEPT !.failed = @ + 1]
                ELSE IF status = "SKIP" THEN [acc EXCEPT !.skipped = @ + 1]
                ELSE acc)

\* The value parse_results and parse_legacy_results return for the counts c
CountsOrNone(c) ==
    IF c.passed = 0 /\ c.failed = 0 /\ c.skipped = 0 THEN NoCounts ELSE c

\* what parse_results returns for output (the set binds the lines once)
parse_results(output) ==
    CHOOSE c \in {CountsOrNone(CountResults(lines, 1, FALSE,
                                            [NoCounts EXCEPT !.none = FALSE])) :
                     lines \in {SplitLines(output)}} : TRUE

\* what parse_legacy_results returns for output
parse_legacy_results(output) ==
    CHOOSE c \in {CountsOrNone(CountResults(lines, 1, TRUE,
                                            [NoCounts EXCEPT !.none = FALSE])) :
                     lines \in {SplitLines(output)}} : TRUE

RECURSIVE ShowResultLines(_, _, _, _)
\* The show_result calls of parse_results / parse_legacy_results, over
\* lines[i..]
ShowResultLines(out, lines, i, legacy) ==
    IF i > Len(lines) THEN out
    ELSE LET status == IF legacy THEN LegacyStatus(lines[i])
                       ELSE ResultStatus(lines[i])
             name == IF legacy THEN SearchTestName(lines[i])
                     ELSE MatchResult(lines[i])
         IN ShowResultLines(
                IF status # "" /\ name.ok
                THEN Append(out, Ev(status, IF legacy THEN name.g1 ELSE name.g2,
                                    0, 0))
                ELSE out,
                lines, i + 1, legacy)

\* The lines run_tests echoes: from the first that starts the test output
TestOutputLines(lines) ==
    LET starts == {i \in 1..Len(lines) :
                       \/ LitAt(lines[i], 1, LitRunning)
                       \/ LitAt(lines[i], 1, LitTest)}
    IN IF starts = {} THEN <<>>
       ELSE SubSeq(lines, CHOOSE i \in starts : \A k \in starts : i <= k,
                   Len(lines))

\* run_tests from "Print output in verbose mode, or if there are failures":
\* the echo of the output, then the summary or the warning
UmanReport(r, a, out, lines, res) ==
    LET echo == /\ r.stdout # <<>>
                /\ ~a.results
                /\ a.test_verbose \/ (~res.none /\ res.failed # 0)
        out3 == IF echo THEN PrintEach(out, "line", TestOutputLines(lines))
                ELSE out
    IN IF ~res.none
       THEN [res |-> res,
             out |-> Append(out3, Ev("results", <<>>, res.passed, res.failed)),
             code |-> r.return_code]
       ELSE [res |-> res,
             out |-> Append(out3, Ev("warning", <<>>, 0, 0)),
             code |-> 1]

\* run_tests from "if not res and args.legacy"
UmanLegacy(r, a, out, lines, res) ==
    IF res.none /\ a.legacy
    THEN CHOOSE u \in {UmanReport(r, a,
                                  IF a.results
                                  THEN ShowResultLines(out, lines, 1, TRUE)
                                  ELSE out,
                                  lines, legacy_res) :
                          legacy_res \in {parse_legacy_results(r.stdout)}} : TRUE
    ELSE UmanReport(r, a, out, lines, res)

\* What uman run_tests computes from the process result and its arguments:
\* [res, out, code]. r is [has_result, stdout, return_code]; a is
\* [results, test_verbose, legacy]
UmanRunTests(r, a, out) ==
    IF ~r.has_result
    THEN [res |-> NoCounts, out |-> Append(out, Ev("error", <<>>, 0, 0)),
          code |-> 1]
    ELSE CHOOSE u \in {UmanLegacy(r, a,
                                  IF a.results
                                  THEN ShowResultLines(out, lines, 1, FALSE)
                                  ELSE out,
                                  lines, res) :
                          lines \in {SplitLines(r.stdout)},
                          res \in {parse_results(r.stdout)}} : TRUE

LineResultPass == <<"R", "e", "s", "u", "l", "t", ":", " ", "P", "A", "S", "S", ":", " ", "a">>
LineResultFailBare == <<"R", "e", "s", "u", "l", "t", ":", " ", "F", "A", "I", "L", " ", "a">>
LineResultSkip == <<"R", "e", "s", "u", "l", "t", ":", " ", "S", "K", "I", "P", ":", " ", "a">>
LineLegacyOk == <<"T", "e", "s", "t", ":", " ", "a", " ", ".", ".", ".", " ", "o", "k">>
LineLegacyFailed == <<"T", "e", "s", "t", ":", " ", "a", " ", ".", ".", ".", " ", "F", "A", "I", "L", "E", "D">>

UmanLines == {LineResultPass, LineResultFailBare, LineResultSkip, LineLegacyOk,
              LineLegacyFailed, LineTest, LineError}

\* The captured output of the process uman runs
UmanOutputs == {JoinLines(ls) : ls \in UNION {[1..k -> UmanLines] : k \in 0..MaxLines}}

\* The results command.run_one can give run_tests: a CommandResult (returned,
\* or carried by the CommandExc raised for a non-zero return code), or a
\* CommandExc that carries none
UmanProcResults ==
    {[has_result |-> TRUE, stdout |-> o, return_code |-> rc] :
         o \in UmanOutputs, rc \in ReturnCodes}
    \cup {[has_result |-> FALSE, stdout |-> <<>>, return_code |-> 1]}

UmanArgs == [results : BOOLEAN, test_verbose : BOOLEAN, legacy : BOOLEAN]

\* uman run_tests when needs_dm_init(specs) holds and ensure_dm_init_files()
\* fails: it returns 1 and runs no process
RunTestsUmanNoFixture ==
    /\ cmd = "uman"
    /\ main_pc = "run"
    /\ uman' = [launched |-> FALSE,
                proc |-> [has_result |-> FALSE, stdout |-> <<>>, return_code |-> 1],
                args |-> [results |-> FALSE, test_verbose |-> FALSE,
                          legacy |-> FALSE],
                res |-> NoCounts]
    /\ exit_code' = 1
    /\ main_pc' = "done"
    /\ UNCHANGED <<cmd, jobs, pending, consumed, pc, progs, shared, results,
                   stdout, predicted, others>>

\* uman run_tests when the fixture check passes
RunTestsUman ==
    /\ cmd = "uman"
    /\ main_pc = "run"
    /\ \E r \in UmanProcResults, a \in UmanArgs :
           LET u == UmanRunTests(r, a, stdout)
           IN /\ uman' = [launched |-> TRUE, proc |-> r, args |-> a,
                          res |-> u.res]
              /\ stdout' = u.out
              /\ exit_code' = u.code
    /\ main_pc' = "done"
    /\ UNCHANGED <<cmd, jobs, pending, consumed, pc, progs, shared, results,
                   predicted, others>>

Next ==
    \/ \E w \in Workers : ProcStart(w)
    \/ \E w \in Workers : ProcStartFails(w)
    \/ \E w \in Workers : ProcOutput(w)
    \/ \E w \in Workers : ProcExit(w)
    \/ RunTestsFinish
    \/ RunTestsParallelFinish
    \/ RunTestsUmanNoFixture
    \/ RunTestsUman

Spec == Init /\ [][Next]_vars

(***************************************************************************)
(* SharedProgress.increment, statement by statement: the threads of        *)
(* run_worker reach it from handle_output at every 'Test:' line             *)
(***************************************************************************)
\* The variables of the run of the tests
runVars == <<cmd, jobs, pending, consumed, pc, progs, shared, results, stdout,
             main_pc, exit_code, uman, predicted>>

\* No thread holds SharedProgress.lock
NoHolder == -1

\* Each sandbox writes 'Test:' lines only, one or MaxLines of them
MarkerStreams == {JoinLines([i \in 1..k |-> LineTest]) : k \in {1, MaxLines}}

\* run_tests_parallel has started the threads; lock.at[w] is where thread w
\* is in SharedProgress.increment, lock.tmp[w] the value it loaded
InitLock ==
    /\ cmd = "par"
    /\ jobs \in 2..MaxJobs
    /\ pending \in [0..(jobs - 1) -> MarkerStreams]
    /\ consumed = [w \in 0..(jobs - 1) |-> <<>>]
    /\ pc = [w \in 0..(jobs - 1) |-> "running"]
    /\ progs = [w \in 0..(jobs - 1) |->
                   [NewTestProgress(0, <<>>) EXCEPT !.silent = TRUE,
                                                    !.shared = TRUE]]
    /\ predicted = 0
    /\ shared = [total |-> predicted, run |-> 0]
    /\ results = [w \in 0..(jobs - 1) |-> NewWorkerResult]
    /\ stdout = <<>>
    /\ main_pc = "run"
    /\ exit_code = 0
    /\ uman = Off
    /\ lock = [pc |-> "on", holder |-> NoHolder,
               at |-> [w \in 0..(jobs - 1) |-> "idle"],
               tmp |-> [w \in 0..(jobs - 1) |-> 0]]
    /\ front = Off
    /\ pol = Off
    /\ bis = Off
    /\ sel = Off

\* handle_output reads a 'Test:' line: self.run += 1, then it calls
\* self.shared.increment()
TestMarker(w) ==
    /\ pc[w] = "running"
    /\ lock.at[w] = "idle"
    /\ pending[w] # <<>>
    /\ pending' = [pending EXCEPT ![w] = SubSeq(@, Len(LineTest) + 2, Len(@))]
    /\ consumed' = [consumed EXCEPT ![w] = @ \o LineTest \o <<"\n">>]
    /\ progs' = [progs EXCEPT ![w].run = @ + 1]
    /\ lock' = [lock EXCEPT !.at[w] = "acquire"]
    /\ UNCHANGED <<cmd, jobs, pc, shared, results, stdout, main_pc, exit_code,
                   uman, predicted, front, pol, bis, sel>>

\* A lock that never makes a thread wait
CanAcquireAlways(w) == TRUE

\* 'with self.lock' lets thread w in
CanAcquire(w) == lock.holder = NoHolder

\* with self.lock: entered
Acquire(w) ==
    /\ lock.at[w] = "acquire"
    /\ CanAcquire(w)
    /\ lock' = [lock EXCEPT !.holder = w, !.at[w] = "load"]
    /\ UNCHANGED <<runVars, front, pol, bis, sel>>

\* self.run += 1: the value is read
Load(w) ==
    /\ lock.at[w] = "load"
    /\ lock' = [lock EXCEPT !.tmp[w] = shared.run, !.at[w] = "store"]
    /\ UNCHANGED <<runVars, front, pol, bis, sel>>

\* self.run += 1: the sum is stored
Store(w) ==
    /\ lock.at[w] = "store"
    /\ shared' = [shared EXCEPT !.run = lock.tmp[w] + 1]
    /\ lock' = [lock EXCEPT !.at[w] = "display"]
    /\ UNCHANGED <<cmd, jobs, pending, consumed, pc, progs, results, stdout,
                   main_pc, exit_code, uman, predicted, front, pol, bis, sel>>

\* status = f'{self.run:>{width}}/{self.total}'; sys.stdout.write
Display(w) ==
    /\ lock.at[w] = "display"
    /\ stdout' = Append(stdout, Ev("progress", <<>>, shared.run, shared.total))
    /\ lock' = [lock EXCEPT !.at[w] = "release"]
    /\ UNCHANGED <<cmd, jobs, pending, consumed, pc, progs, shared, results,
                   main_pc, exit_code, uman, predicted, front, pol, bis, sel>>

\* with self.lock: left
Release(w) ==
    /\ lock.at[w] = "release"
    /\ lock' = [lock EXCEPT !.holder = IF @ = w THEN NoHolder ELSE @,
                            !.at[w] = "idle"]
    /\ UNCHANGED <<runVars, front, pol, bis, sel>>

\* the process of thread w ends and run_worker stores its results
WorkerEnds(w) ==
    /\ pc[w] = "running"
    /\ lock.at[w] = "idle"
    /\ pending[w] = <<>>
    /\ pc' = [pc EXCEPT ![w] = "done"]
    /\ results' = [results EXCEPT ![w].run = progs[w].run]
    /\ UNCHANGED <<cmd, jobs, pending, consumed, progs, shared, stdout, main_pc,
                   exit_code, uman, predicted, lock, front, pol, bis, sel>>

NextLock ==
    \/ \E w \in Workers : TestMarker(w)
    \/ \E w \in Workers : Acquire(w)
    \/ \E w \in Workers : Load(w)
    \/ \E w \in Workers : Store(w)
    \/ \E w \in Workers : Display(w)
    \/ \E w \in Workers : Release(w)
    \/ \E w \in Workers : WorkerEnds(w)

SpecLock == InitLock /\ [][NextLock]_vars

(***************************************************************************)
(* The test commands before the tests run: utool run_tests and uman        *)
(* do_test / run_tests, from the selectors of the command line to the      *)
(* processes they start                                                    *)
(***************************************************************************)
\* Largest args.jobs of a command line
MaxWorkers == 3

\* None; no text is equal to it
None == <<"None">>

\* The words the commands compare with and write
Word ==
    [all |-> <<"a", "l", "l">>,
     dm |-> <<"d", "m">>,
     bootstd |-> <<"b", "o", "o", "t", "s", "t", "d">>,
     test |-> <<"t", "e", "s", "t", "_">>,
     infix |-> <<"_", "t", "e", "s", "t", "_">>,
     ut |-> <<"u", "t", "_">>,
     cmd |-> <<"u", "t">>,
     sandbox |-> <<"u", "-", "b", "o", "o", "t">>,
     T |-> <<"-", "T">>,
     F |-> <<"-", "F">>,
     v |-> <<"-", "v">>,
     c |-> <<"-", "c">>,
     E |-> <<"-", "E", " ">>,
     m |-> <<"-", "m", " ">>,
     P |-> <<"-", "P">>,
     sep |-> <<";", " ">>]

\* HOST_TESTS = ['cmd_host', 'host', 'host_dup']
HOST_TESTS ==
    <<<<"c", "m", "d", "_", "h", "o", "s", "t">>,
      <<"h", "o", "s", "t">>,
      <<"h", "o", "s", "t", "_", "d", "u", "p">>>>

\* s.startswith(lit)
StartsWith(s, lit) == LitAt(s, 1, lit)
\* s.endswith(lit)
EndsWith(s, lit) == Len(lit) <= Len(s) /\ LitAt(s, Len(s) - Len(lit) + 1, lit)

\* s.split(lit, 1) of an s that contains lit
SplitOnce(s, lit) ==
    LET i == CHOOSE j \in 1..Len(s) :
                 LitAt(s, j, lit) /\ \A k \in 1..(j - 1) : ~LitAt(s, k, lit)
    IN <<SubSeq(s, 1, i - 1), SubSeq(s, i + Len(lit), Len(s))>>

\* A split that keeps the first word alone
SplitSpaceFirst(arg) ==
    LET a == SpanEnd(arg, 1, IsSpace)
        b == SpanEnd(arg, a, IsNonSpace)
    IN IF a > Len(arg) THEN <<>> ELSE <<SubSeq(arg, a, b - 1)>>

\* arg.split(None, 1)
SplitSpace(arg) ==
    LET a == SpanEnd(arg, 1, IsSpace)
        b == SpanEnd(arg, a, IsNonSpace)
        c == SpanEnd(arg, b, IsSpace)
    IN IF a > Len(arg) THEN <<>>
       ELSE IF c > Len(arg) THEN <<SubSeq(arg, a, b - 1)>>
       ELSE <<SubSeq(arg, a, b - 1), SubSeq(arg, c, Len(arg))>>

\* 'if pattern:'
Truthy(pattern) == pattern # None /\ pattern # <<>>

RECURSIVE Str(_)
\* f'{n}' of a number that is not negative
Str(n) == IF n < 10 THEN <<Digits[n + 1]>>
          ELSE Str(n \div 10) \o <<Digits[(n % 10) + 1]>>

RECURSIVE Join(_, _)
\* sep.join(parts)
Join(parts, sep) ==
    IF parts = <<>> THEN <<>>
    ELSE IF Len(parts) = 1 THEN parts[1]
    ELSE parts[1] \o sep \o Join(Tail(parts), sep)

\* A parse whose third rule does not look at the rest
ParsePartsAnyRest(parts) ==
    LET suite == parts[1]
        pattern == IF Len(parts) > 1 THEN parts[2] ELSE None
    IN IF Contains(suite, Word.infix) THEN SplitOnce(suite, Word.infix)
       ELSE IF StartsWith(suite, Word.test)
            THEN <<None, SubSeq(suite, 6, Len(suite))>>
       ELSE IF Contains(suite, <<"_">>) THEN <<None, suite>>
       ELSE <<suite, pattern>>

\* utool parse_one_test after 'parts = arg.split(None, 1)'; an argument has
\* at least one word
ParseParts(parts) ==
    LET suite == parts[1]
        pattern == IF Len(parts) > 1 THEN parts[2] ELSE None
    IN IF Contains(suite, Word.infix) THEN SplitOnce(suite, Word.infix)
       ELSE IF StartsWith(suite, Word.test)
            THEN <<None, SubSeq(suite, 6, Len(suite))>>
       ELSE IF Contains(suite, <<"_">>) /\ pattern = None THEN <<None, suite>>
       ELSE <<suite, pattern>>

\* utool parse_one_test
parse_one_test(arg) ==
    CHOOSE spec \in {ParseParts(parts) : parts \in {SplitSpace(arg)}} : TRUE

\* uman parse_one_test after 'parts = arg.split(None, 1)'
UmanParseParts(parts) ==
    LET pattern == IF Len(parts) > 1 THEN parts[2] ELSE None
        is_ut == StartsWith(parts[1], Word.ut)
        suite == IF is_ut THEN SubSeq(parts[1], 4, Len(parts[1])) ELSE parts[1]
    IN IF is_ut /\ Contains(suite, <<"_">>) /\ pattern = None
       THEN SplitOnce(suite, <<"_">>)
       ELSE IF Contains(suite, <<".">>) /\ pattern = None
            THEN SplitOnce(suite, <<".">>)
       ELSE IF Contains(suite, Word.infix) THEN SplitOnce(suite, Word.infix)
       ELSE IF StartsWith(suite, Word.test)
            THEN <<None, SubSeq(suite, 6, Len(suite))>>
       ELSE IF Contains(suite, <<"_">>) /\ pattern = None THEN <<None, suite>>
       ELSE <<suite, pattern>>

\* uman parse_one_test
uman_parse_one_test(arg) ==
    CHOOSE spec \in {UmanParseParts(parts) : parts \in {SplitSpace(arg)}} : TRUE

RECURSIVE GlobMatch(_, _)
\* name matches pat as a shell glob: '*' any run of characters, '?' any one
\* character, '[...]' one character of those listed, any other character
\* itself
GlobMatch(name, pat) ==
    IF pat = <<>> THEN name = <<>>
    ELSE IF pat[1] = "*"
         THEN \/ GlobMatch(name, Tail(pat))
              \/ name # <<>> /\ GlobMatch(Tail(name), pat)
    ELSE IF name = <<>> THEN FALSE
    ELSE IF pat[1] = "?" THEN GlobMatch(Tail(name), Tail(pat))
    ELSE IF pat[1] = "[" /\ \E j \in 3..Len(pat) : pat[j] = "]"
         THEN LET j == CHOOSE i \in 3..Len(pat) :
                           pat[i] = "]" /\ \A k \in 3..(i - 1) : pat[k] # "]"
              IN /\ \E k \in 2..(j - 1) : pat[k] = name[1]
                 /\ GlobMatch(Tail(name), SubSeq(pat, j + 1, Len(pat)))
    ELSE pat[1] = name[1] /\ GlobMatch(Tail(name), Tail(pat))

\* A test for '*' alone
HasGlobStar(arg) == \E i \in 1..Len(arg) : arg[i] = "*"

\* any(c in arg for c in '*?[')
HasGlob(arg) == \E i \in 1..Len(arg) : arg[i] \in {"*", "?", "["}

\* parse_test_specs, the same in both commands but for the parse_one_test
\* it calls
parse_test_specs(tests, tool) ==
    LET one_test(t) == IF tool = "uman" THEN uman_parse_one_test(t)
                       ELSE parse_one_test(t)
    IN
    IF tests = <<>> \/ tests = <<Word.all>> THEN <<<<Word.all, None>>>>
    ELSE IF Len(tests) = 1 THEN <<one_test(tests[1])>>
    ELSE IF Len(tests) = 2 /\ HasGlob(tests[2])
         THEN <<<<tests[1], tests[2]>>>>
    ELSE [k \in 1..Len(tests) |-> one_test(tests[k])]

\* index of the first test of all_tests whose name ends with pattern, or 0
FirstMatch(all_tests, pattern) ==
    IF \E k \in 1..Len(all_tests) : EndsWith(all_tests[k][2], pattern)
    THEN CHOOSE k \in 1..Len(all_tests) :
             /\ EndsWith(all_tests[k][2], pattern)
             /\ \A j \in 1..(k - 1) : ~EndsWith(all_tests[j][2], pattern)
    ELSE 0

RECURSIVE uman_resolve_specs(_, _)
\* uman resolve_specs: (resolved, unmatched)
uman_resolve_specs(all_tests, specs) ==
    IF specs = <<>> THEN [resolved |-> <<>>, unmatched |-> <<>>]
    ELSE LET sp == Head(specs)
             rest == uman_resolve_specs(all_tests, Tail(specs))
             k == FirstMatch(all_tests, sp[2])
         IN IF sp[1] # None THEN [rest EXCEPT !.resolved = <<sp>> \o @]
            ELSE IF k # 0
                 THEN [rest EXCEPT !.resolved = <<<<all_tests[k][1], sp[2]>>>> \o @]
            ELSE [rest EXCEPT !.unmatched = <<<<None, sp[2]>>>> \o @]

RECURSIVE resolve_specs(_, _)
\* utool resolve_specs: a spec that no test matches is left out
resolve_specs(all_tests, specs) ==
    IF specs = <<>> THEN <<>>
    ELSE LET sp == Head(specs)
             rest == resolve_specs(all_tests, Tail(specs))
             k == FirstMatch(all_tests, sp[2])
         IN IF sp[1] # None THEN <<sp>> \o rest
            ELSE IF k # 0 THEN <<<<all_tests[k][1], sp[2]>>>> \o rest
            ELSE rest

\* uman validate_specs
validate_specs(all_tests, specs) ==
    IF specs = <<<<Word.all, None>>>> THEN <<>>
    ELSE SelectSeq(specs,
                   LAMBDA sp :
                       ~\E k \in 1..Len(all_tests) :
                           /\ all_tests[k][1] = sp[1]
                           /\ sp[2] = None \/ EndsWith(all_tests[k][2], sp[2]))

\* utool needs_dm_init(args)
needs_dm_init(tests) ==
    \/ tests = <<>>
    \/ \E i \in 1..Len(tests) :
           \/ tests[i] \in {Word.dm, Word.all}
           \/ \E h \in 1..Len(HOST_TESTS) : Contains(tests[i], HOST_TESTS[h])

\* utool needs_bootstd_init(args)
needs_bootstd_init(tests) ==
    \/ tests = <<>>
    \/ \E i \in 1..Len(tests) : tests[i] \in {Word.bootstd, Word.all}

\* uman needs_dm_init(specs)
uman_needs_dm_init(specs) ==
    \E i \in 1..Len(specs) :
        \/ specs[i][1] \in {Word.dm, Word.all}
        \/ /\ Truthy(specs[i][2])
           /\ \E h \in 1..Len(HOST_TESTS) : Contains(specs[i][2], HOST_TESTS[h])

\* A directive that names the worker where the number of workers belongs
PartitionDirectiveSwapped(workers, worker_id) ==
    Word.P \o Str(worker_id) \o <<":">> \o Str(workers)

\* -P{workers}:{worker_id}
PartitionDirective(workers, worker_id) ==
    Word.P \o Str(workers) \o <<":">> \o Str(worker_id)

\* build_sandbox_args
build_sandbox_args(sandbox, specs, flattree, workers, worker_id) ==
    LET ut == IF workers # 0
              THEN Word.cmd \o <<" ">> \o PartitionDirective(workers, worker_id)
              ELSE Word.cmd
        cmds == [k \in 1..Len(specs) |->
                    IF Truthy(specs[k][2])
                    THEN ut \o <<" ">> \o specs[k][1] \o <<" ">> \o specs[k][2]
                    ELSE ut \o <<" ">> \o specs[k][1]]
    IN <<sandbox, Word.T>> \o (IF ~flattree THEN <<Word.F>> ELSE <<>>)
       \o <<Word.c, Join(cmds, Word.sep)>>

\* A command line that asks for the live tree only, whatever full is
build_ut_cmd_live(sandbox, specs, full, verbose, legacy, manual) ==
    LET flags == (IF ~legacy THEN Word.E ELSE <<>>)
                 \o (IF manual THEN Word.m ELSE <<>>)
        cmds == [k \in 1..Len(specs) |->
                    Word.cmd \o <<" ">> \o flags \o specs[k][1]]
    IN <<sandbox, Word.T, Word.F>>
       \o (IF verbose THEN <<Word.v>> ELSE <<>>)
       \o <<Word.c, Join(cmds, Word.sep)>>

\* uman build_ut_cmd
build_ut_cmd(sandbox, specs, full, verbose, legacy, manual) ==
    LET flags == (IF ~legacy THEN Word.E ELSE <<>>)
                 \o (IF manual THEN Word.m ELSE <<>>)
        cmds == [k \in 1..Len(specs) |->
                    IF Truthy(specs[k][2])
                    THEN Word.cmd \o <<" ">> \o flags \o specs[k][1] \o <<" ">>
                         \o specs[k][2]
                    ELSE Word.cmd \o <<" ">> \o flags \o specs[k][1]]
    IN <<sandbox, Word.T>> \o (IF ~full THEN <<Word.F>> ELSE <<>>)
       \o (IF verbose THEN <<Word.v>> ELSE <<>>)
       \o <<Word.c, Join(cmds, Word.sep)>>

\* args.tests of the command lines: no selector, suites that exist and one
\* that does not, test names that exist and that do not, in every form
FrontTests ==
    {<<>>,
     <<<<"d", "m">>>>,
     <<<<"l", "i", "b">>>>,
     <<<<"b", "o", "o", "t", "s", "t", "d">>>>,
     <<<<"l", "o", "g">>>>,
     <<<<"t", "e", "s", "t", "_", "h", "o", "s", "t">>>>,
     <<<<"t", "e", "s", "t", "_", "z", "z">>>>,
     <<<<"l", "i", "b", "_", "t", "e", "s", "t", "_", "a", "b", "c">>>>,
     <<<<"l", "i", "b", "_", "t", "e", "s", "t", "_", "z", "z">>>>,
     <<<<"l", "i", "b">>, <<"t", "e", "s", "t", "_", "z", "z">>>>,
     <<<<"l", "i", "b">>, <<"d", "m">>>>,
     <<<<"d", "m">>, <<"h", "*">>>>,
     <<<<"l", "i", "b", " ", "a", "b", "c">>>>,
     <<<<"d", "m", " ", "z", "z">>>>}

\* get_tests_from_nm(sandbox): the tests of the binary, sorted, or nothing
Inventories ==
    {<<>>,
     <<<<<<"b", "o", "o", "t", "s", "t", "d">>, <<"b", "o", "o", "t", "s", "t", "d", "_", "t", "e", "s", "t", "_", "q">>>>,
       <<<<"d", "m">>, <<"d", "m", "_", "t", "e", "s", "t", "_", "h", "o", "s", "t">>>>,
       <<<<"l", "i", "b">>, <<"l", "i", "b", "_", "t", "e", "s", "t", "_", "a", "b", "c">>>>>>}

\* The fixtures and the file that tells each is there: 2MB.ext2.img, mmc1.img
FixtureKinds == {"dm", "bootstd"}

\* One thing the command did: an error or a notice it wrote, a look for a
\* fixture file, a run of the generator, a sandbox process it started
Fe(ev, kind, ok, args) == [ev |-> ev, kind |-> kind, ok |-> ok, args |-> args]

\* The command lines of utool test (args.jobs, args.flattree, args.dry_run)
\* and of uman test (args.full, args.test_verbose, args.legacy, args.manual),
\* the build tree and the persistent-data directory they find
FrontInputs ==
    LET common == [pc : {"start"}, tests : FrontTests, all_tests : Inventories,
                   files : SUBSET FixtureKinds, sandbox : BOOLEAN,
                   specs : {<<>>}, log : {<<>>}, ret : {0}]
        utool == [tool : {"utool"}, jobs : 1..MaxWorkers, flattree : BOOLEAN,
                  dry_run : BOOLEAN, uboot_dir : BOOLEAN, verbose : {FALSE},
                  legacy : {FALSE}, manual : {FALSE}]
        umanc == [tool : {"uman"}, jobs : {1}, flattree : BOOLEAN,
                  dry_run : {FALSE}, uboot_dir : {TRUE}, verbose : BOOLEAN,
                  legacy : BOOLEAN, manual : BOOLEAN]
    IN {a @@ b : a \in common, b \in utool \cup umanc}

InitFront ==
    /\ cmd = "front"
    /\ jobs = 0
    /\ pending = <<>>
    /\ consumed = <<>>
    /\ pc = <<>>
    /\ progs = <<>>
    /\ predicted = 0
    /\ shared = [total |-> 0, run |-> 0]
    /\ results = <<>>
    /\ stdout = <<>>
    /\ main_pc = "run"
    /\ exit_code = 0
    /\ uman = Off
    /\ lock = Off
    /\ front \in FrontInputs
    /\ pol = Off
    /\ bis = Off
    /\ sel = Off

\* The command returns code after it wrote the events
Return(code, events) ==
    [front EXCEPT !.pc = "returned", !.ret = code, !.log = @ \o events]

\* utool run_tests up to the fixtures: sandbox and source tree, the specs,
\* --dry-run
RunTestsResolve ==
    /\ front.pc = "start"
    /\ front.tool = "utool"
    /\ \E parsed \in {parse_test_specs(front.tests, "utool")} :
       \E specs \in {resolve_specs(front.all_tests, parsed)} :
       LET lines == IF front.jobs > 1
                    THEN [i \in 1..front.jobs |->
                             Fe("notice", "args", TRUE,
                                build_sandbox_args(Word.sandbox, specs,
                                                   front.flattree, front.jobs,
                                                   i - 1))]
                    ELSE <<Fe("notice", "args", TRUE,
                              build_sandbox_args(Word.sandbox, specs,
                                                 front.flattree, 0, 0))>>
       IN front' = IF ~front.sandbox
                   THEN Return(1, <<Fe("error", "no_sandbox", FALSE, <<>>)>>)
                   ELSE IF ~front.uboot_dir
                        THEN Return(1, <<Fe("error", "no_tree", FALSE, <<>>)>>)
                   ELSE IF front.dry_run
                        THEN [Return(0, lines) EXCEPT !.specs = specs]
                   ELSE [front EXCEPT !.specs = specs, !.pc = "dm_init"]
    /\ UNCHANGED <<runVars, lock, pol, bis, sel>>

\* uman do_test from the sandbox path to run_tests: parse, resolve, validate
DoTestResolve ==
    /\ front.pc = "start"
    /\ front.tool = "uman"
    /\ \E parsed \in {parse_test_specs(front.tests, "uman")} :
       \E r \in {uman_resolve_specs(front.all_tests, parsed)} :
       \E bad \in {validate_specs(front.all_tests, r.resolved)} :
          front' = IF ~front.sandbox
                   THEN Return(1, <<Fe("error", "no_sandbox", FALSE, <<>>)>>)
                   ELSE IF r.unmatched # <<>>
                        THEN Return(1, [k \in 1..Len(r.unmatched) |->
                                           Fe("error", "no_match", FALSE,
                                              r.unmatched[k])])
                   ELSE IF bad # <<>>
                        THEN Return(1, [k \in 1..Len(bad) |->
                                           Fe("error", "no_match", FALSE, bad[k])])
                   ELSE [front EXCEPT !.specs = r.resolved, !.pc = "dm_init"]
    /\ UNCHANGED <<runVars, lock, pol, bis, sel>>

\* A look that finds every file
os_path_exists_Always(files, kind) == TRUE

\* os.path.exists(test_file)
os_path_exists(files, kind) == kind \in files

\* 'needs_x_init(..) and not ensure_x_init_files()': the file is looked for
\* only when the fixture is needed and run_pytest runs only when the file is
\* not there; what run_pytest returns decides
EnsureInitFiles(kind, needs, next) ==
    \/ /\ ~needs
       /\ front' = [front EXCEPT !.pc = next]
    \/ /\ needs
       /\ os_path_exists(front.files, kind)
       /\ front' = [front EXCEPT !.pc = next,
                                 !.log = Append(@, Fe("exists", kind, TRUE, <<>>))]
    \/ /\ needs
       /\ ~os_path_exists(front.files, kind)
       /\ \E ok \in BOOLEAN :
              LET ran == <<Fe("exists", kind, FALSE, <<>>),
                           Fe("generate", kind, ok, <<>>)>>
              IN front' = IF ok THEN [front EXCEPT !.pc = next, !.log = @ \o ran]
                          ELSE IF front.tool = "uman"
                               THEN Return(1, ran \o <<Fe("error", "no_files",
                                                          FALSE, <<>>)>>)
                          ELSE Return(1, ran)

\* the dm fixture: utool run_tests, uman run_tests
EnsureDmInit ==
    /\ front.pc = "dm_init"
    /\ IF front.tool = "utool"
       THEN EnsureInitFiles("dm", needs_dm_init(front.tests), "bootstd_init")
       ELSE EnsureInitFiles("dm", uman_needs_dm_init(front.specs), "launch")
    /\ UNCHANGED <<runVars, lock, pol, bis, sel>>

\* the bootstd fixture of utool run_tests
EnsureBootstdInit ==
    /\ front.pc = "bootstd_init"
    /\ EnsureInitFiles("bootstd", needs_bootstd_init(front.tests), "launch")
    /\ UNCHANGED <<runVars, lock, pol, bis, sel>>

\* the sandbox processes started so far
Launched == SelectSeq(front.log, LAMBDA e : e.ev = "launch")

\* run_tests_parallel: one turn of 'for i in range(workers)'; the thread
\* starts the process with the arguments built for it
StartWorker ==
    /\ front.pc = "launch"
    /\ front.tool = "utool"
    /\ front.jobs > 1
    /\ LET i == Len(Launched)
       IN front' = [front EXCEPT
                        !.log = Append(@, Fe("launch", "sandbox", TRUE,
                                             build_sandbox_args(Word.sandbox,
                                                 front.specs, front.flattree,
                                                 front.jobs, i))),
                        !.pc = IF i + 1 = front.jobs THEN "running" ELSE @]
    /\ UNCHANGED <<runVars, lock, pol, bis, sel>>

\* utool run_tests, single-threaded: cros_subprocess.Popen(sandbox_args)
StartSandbox ==
    /\ front.pc = "launch"
    /\ front.tool = "utool"
    /\ front.jobs <= 1
    /\ front' = [front EXCEPT
                     !.log = Append(@, Fe("launch", "sandbox", TRUE,
                                          build_sandbox_args(Word.sandbox,
                                              front.specs, front.flattree, 0, 0))),
                     !.pc = "running"]
    /\ UNCHANGED <<runVars, lock, pol, bis, sel>>

\* uman run_tests: command.run_one(*cmd)
UmanStartSandbox ==
    /\ front.pc = "launch"
    /\ front.tool = "uman"
    /\ front' = [front EXCEPT
                     !.log = Append(@, Fe("launch", "sandbox", TRUE,
                                          build_ut_cmd(Word.sandbox, front.specs,
                                              front.flattree, front.verbose,
                                              front.legacy, front.manual))),
                     !.pc = "running"]
    /\ UNCHANGED <<runVars, lock, pol, bis, sel>>

NextFront ==
    \/ RunTestsResolve
    \/ DoTestResolve
    \/ EnsureDmInit
    \/ EnsureBootstdInit
    \/ StartWorker
    \/ StartSandbox
    \/ UmanStartSandbox

SpecFront == InitFront /\ [][NextFront]_vars

(***************************************************************************)
(* uman do_pollute: the search for the test that pollutes the target       *)
(***************************************************************************)
\* Largest number of collected tests
MaxTests == 9

\* The node id of collected test number k
NodeId(k) == <<"t">> \o Str(k)

\* collect_tests(args): None, or the tests in the order they run
Collections == {<<>>} \cup {[k \in 1..n |-> NodeId(k)] : n \in 1..MaxTests}

\* args.pollute: a test id, or a text that is in no test id
Targets == {NodeId(k) : k \in 1..MaxTests} \cup {<<"x">>}

\* One pollute_run: the tests run before the target, and whether the target
\* failed
Probe(before, failed) == [before |-> before, failed |-> failed]

\* target_idx = None
NoIndex == -1

InitPollute ==
    /\ cmd = "pollute"
    /\ jobs = 0
    /\ pending = <<>>
    /\ consumed = <<>>
    /\ pc = <<>>
    /\ progs = <<>>
    /\ predicted = 0
    /\ shared = [total |-> 0, run |-> 0]
    /\ results = <<>>
    /\ stdout = <<>>
    /\ main_pc = "run"
    /\ exit_code = 0
    /\ uman = Off
    /\ lock = Off
    /\ front = Off
    /\ bis = Off
    /\ sel = Off
    /\ \E tests \in Collections, target \in Targets, collected \in BOOLEAN :
           pol = [pc |-> "start", collected |-> collected, tests |-> tests,
                  target |-> target, target_idx |-> NoIndex, candidates |-> <<>>,
                  steps |-> 0, step |-> 0, probes |-> <<>>, polluter |-> None,
                  ret |-> 0, msg |-> ""]

\* do_pollute returns code; msg is the last thing it wrote
PolluteReturn(code, msg) ==
    [pol EXCEPT !.pc = "returned", !.ret = code, !.msg = msg]

\* the index, from 0, of the first test that target is a part of, or None
FindTarget(tests, target) ==
    IF \E i \in 1..Len(tests) : Contains(tests[i], target)
    THEN (CHOOSE i \in 1..Len(tests) :
              /\ Contains(tests[i], target)
              /\ \A j \in 1..(i - 1) : ~Contains(tests[j], target)) - 1
    ELSE NoIndex

\* A check that lets a first test through
TargetIsFirstNever(target_idx) == FALSE

\* target_idx == 0
TargetIsFirst(target_idx) == target_idx = 0

\* do_pollute from the collection to the candidates
PolluteCollect ==
    /\ pol.pc = "start"
    /\ LET target_idx == FindTarget(pol.tests, pol.target)
       IN pol' = IF ~pol.collected THEN PolluteReturn(1, "")
                 ELSE IF target_idx = NoIndex
                      THEN PolluteReturn(1, "not found in collection")
                 ELSE IF TargetIsFirst(target_idx)
                      THEN [PolluteReturn(1, "Target is the first test")
                            EXCEPT !.target_idx = target_idx,
                                   !.target = pol.tests[1]]
                 ELSE [pol EXCEPT !.pc = "alone",
                                  !.target_idx = target_idx,
                                  !.target = pol.tests[target_idx + 1],
                                  !.candidates = SubSeq(pol.tests, 1, target_idx)]
    /\ UNCHANGED <<runVars, lock, front, bis, sel>>

\* What pollute_run(before, target) can return: anything, unless the run is
\* one where a single test pollutes the target, and then the target fails
\* exactly when that test ran before it
Outcomes(before) ==
    IF "culprit" \in DOMAIN pol
    THEN {\E k \in 1..Len(before) : before[k] = pol.culprit}
    ELSE BOOLEAN

\* 'Verifying target passes alone': pollute_run([], target)
VerifyAlone ==
    /\ pol.pc = "alone"
    /\ \E failed \in Outcomes(<<>>) :
           pol' = [(IF failed THEN PolluteReturn(1, "fails when run alone")
                    ELSE [pol EXCEPT !.pc = "all"])
                   EXCEPT !.probes = Append(@, Probe(<<>>, failed))]
    /\ UNCHANGED <<runVars, lock, front, bis, sel>>

RECURSIVE CeilLog2(_)
\* math.ceil(math.log2(n)) if n else 0
CeilLog2(n) == IF n <= 1 THEN 0 ELSE 1 + CeilLog2((n + 1) \div 2)

\* 'Verifying target fails with all prior tests': pollute_run(candidates,
\* target); then steps is computed
VerifyAll ==
    /\ pol.pc = "all"
    /\ \E failed \in Outcomes(pol.candidates) :
           pol' = [(IF ~failed THEN PolluteReturn(1, "cannot reproduce")
                    ELSE [pol EXCEPT !.pc = "search",
                                     !.steps = CeilLog2(Len(pol.candidates))])
                   EXCEPT !.probes = Append(@, Probe(pol.candidates, failed))]
    /\ UNCHANGED <<runVars, lock, front, bis, sel>>

\* A split that puts no test in the first half
MidZero(candidates) == 0

\* A split that takes one test off the front
MidOne(candidates) == 1

\* A split that leaves one test at the end
MidLast(candidates) == Len(candidates) - 1

\* mid = len(candidates) // 2
Mid(candidates) == Len(candidates) \div 2

\* A narrowing that goes on with the half that did not fail
NarrowToPassing(candidates, mid, failed) ==
    IF failed THEN SubSeq(candidates, mid + 1, Len(candidates))
    ELSE SubSeq(candidates, 1, mid)

\* candidates = first_half when the probe failed, else candidates[mid:]
Narrow(candidates, mid, failed) ==
    IF failed THEN SubSeq(candidates, 1, mid)
    ELSE SubSeq(candidates, mid + 1, Len(candidates))

\* one turn of 'while len(candidates) > 1'
SearchStep ==
    /\ pol.pc = "search"
    /\ Len(pol.candidates) > 1
    /\ LET mid == Mid(pol.candidates)
           first_half == SubSeq(pol.candidates, 1, mid)
       IN \E failed \in Outcomes(first_half) :
              pol' = [pol EXCEPT
                          !.step = @ + 1,
                          !.probes = Append(@, Probe(first_half, failed)),
                          !.candidates = Narrow(@, mid, failed)]
    /\ UNCHANGED <<runVars, lock, front, bis, sel>>

\* A final verification that counts a pass as a failure
ReproducedAlways(failed) == TRUE

\* 'if pollute_run([polluter], target, args, env)'
Reproduced(failed) == failed

\* the loop is left: 'if not candidates', else the final verification
\* pollute_run([polluter], target)
FinalVerify ==
    /\ pol.pc = "search"
    /\ Len(pol.candidates) <= 1
    /\ \/ /\ pol.candidates = <<>>
          /\ pol' = PolluteReturn(1, "No polluter found")
       \/ /\ pol.candidates # <<>>
          /\ \E failed \in Outcomes(<<pol.candidates[1]>>) :
                 pol' = [(IF Reproduced(failed)
                          THEN [PolluteReturn(0, "Found") EXCEPT
                                    !.polluter = pol.candidates[1]]
                          ELSE PolluteReturn(1, "inconclusive"))
                         EXCEPT !.probes =
                                    Append(@, Probe(<<pol.candidates[1]>>, failed))]
    /\ UNCHANGED <<runVars, lock, front, bis, sel>>

NextPollute ==
    \/ PolluteCollect
    \/ VerifyAlone
    \/ VerifyAll
    \/ SearchStep
    \/ FinalVerify

SpecPollute == InitPollute /\ [][NextPollute]_vars

\* Every pollute_run returns and do_pollute goes on
SpecPolluteFair == SpecPollute /\ WF_vars(NextPollute)

\* The runs in which the target is found after the first test, passes alone,
\* and exactly one of the tests before it pollutes it
InitPolluteOne ==
    /\ cmd = "pollute"
    /\ jobs = 0
    /\ pending = <<>>
    /\ consumed = <<>>
    /\ pc = <<>>
    /\ progs = <<>>
    /\ predicted = 0
    /\ shared = [total |-> 0, run |-> 0]
    /\ results = <<>>
    /\ stdout = <<>>
    /\ main_pc = "run"
    /\ exit_code = 0
    /\ uman = Off
    /\ lock = Off
    /\ front = Off
    /\ bis = Off
    /\ sel = Off
    /\ \E n \in 2..MaxTests :
       \E t \in 2..n :
       \E p \in 1..(t - 1) :
           pol = [pc |-> "start", collected |-> TRUE,
                  tests |-> [k \in 1..n |-> NodeId(k)],
                  target |-> NodeId(t), target_idx |-> NoIndex,
                  candidates |-> <<>>, steps |-> 0, step |-> 0,
                  probes |-> <<>>, polluter |-> None, ret |-> 0, msg |-> "",
                  culprit |-> NodeId(p)]

SpecPolluteOne == InitPolluteOne /\ [][NextPollute]_vars

\* Every pollute_run returns and do_pollute goes on
SpecPolluteOneFair == SpecPolluteOne /\ WF_vars(NextPollute)


(***************************************************************************)
(* uman build --bisect: do_bisect and the repository it drives             *)
(***************************************************************************)
\* The most commits that HEAD is ahead of its upstream
MaxCommits == 4

\* The length of a commit hash as git prints it
HashLen == 14

\* The length that do_bisect shortens a hash to
ShortLen == 12

\* The texts that git writes and do_bisect looks for or writes
Git ==
    [branch |-> <<"m", "y", "-", "b", "r", "a", "n", "c", "h">>,
     on_branch |-> <<"O", "n", " ", "b", "r", "a", "n", "c", "h", " ">>,
     detached |-> <<"H", "E", "A", "D", " ", "d", "e", "t", "a", "c", "h", "e", "d", " ", "a", "t", " ">>,
     rebasing |-> <<"i", "n", "t", "e", "r", "a", "c", "t", "i", "v", "e", " ", "r", "e", "b", "a", "s", "e", " ", "i", "n", " ", "p", "r", "o", "g", "r", "e", "s", "s", ";", " ", "o", "n", "t", "o", " ">>,
     rebase |-> <<"r", "e", "b", "a", "s", "e", " ", "i", "n", " ", "p", "r", "o", "g", "r", "e", "s", "s">>,
     first_bad |-> <<"i", "s", " ", "t", "h", "e", " ", "f", "i", "r", "s", "t", " ", "b", "a", "d", " ", "c", "o", "m", "m", "i", "t">>,
     left |-> <<"B", "i", "s", "e", "c", "t", "i", "n", "g", ":", " ", "r", "e", "v", "i", "s", "i", "o", "n", "s", " ", "l", "e", "f", "t", " ", "t", "o", " ", "t", "e", "s", "t", " ", "a", "f", "t", "e", "r", " ", "t", "h", "i", "s">>,
     report |-> <<"\n", "F", "i", "r", "s", "t", " ", "b", "a", "d", " ", "c", "o", "m", "m", "i", "t", ":", " ">>]

\* The hash of commit c; commit 0 is the upstream, each commit the parent of
\* the next
Hash(c) == Str(c) \o [i \in 1..(HashLen - 1) |-> "f"]

\* The commit that git finds for a hash
Commit(hash) == CHOOSE c \in 0..(MaxCommits + 1) : Hash(c) = hash

\* The subject line of commit c
Subject(c) == <<"s", "u", "b", "j">> \o Str(c)

\* One command that do_bisect ran: its name, its argument, and the commit
\* that was checked out when it ran
Call(name, arg, at) == [cmd |-> name, arg |-> arg, at |-> at]

\* The state after construction: a repository whose HEAD is 'ahead' commits
\* after the upstream, on a branch or detached (as in a rebase), and for
\* every commit whether the board builds there
InitBisect ==
    /\ cmd = "bisect"
    /\ jobs = 0
    /\ pending = <<>>
    /\ consumed = <<>>
    /\ pc = <<>>
    /\ progs = <<>>
    /\ shared = [total |-> 0, run |-> 0]
    /\ results = <<>>
    /\ stdout = <<>>
    /\ main_pc = "run"
    /\ exit_code = 0
    /\ uman = Off
    /\ predicted = 0
    /\ lock = Off
    /\ front = Off
    /\ pol = Off
    /\ sel = Off
    /\ \E ahead \in 0..MaxCommits, rebase \in BOOLEAN, on \in {Git.branch, None},
          tracking \in BOOLEAN :
          \E builds \in [0..ahead -> BOOLEAN] :
              /\ rebase => on = None
              /\ bis = [pc |-> "status",
                        rebase |-> rebase,
                        tracking |-> tracking,
                        tip |-> ahead,
                        builds |-> builds,
                        branch |-> on,
                        on |-> on,
                        at |-> ahead,
                        bisecting |-> FALSE,
                        start_on |-> None,
                        start_at |-> NoIndex,
                        good |-> NoIndex,
                        bad |-> NoIndex,
                        orig_branch |-> None,
                        upstream |-> None,
                        head |-> None,
                        step |-> 0,
                        result |-> <<>>,
                        bad_commit |-> None,
                        calls |-> <<>>,
                        msg |-> "",
                        report |-> <<>>,
                        ret |-> NoIndex]

\* 'return code' after a message
BisectReturn(b, code, msg) == [b EXCEPT !.pc = "returned", !.ret = code, !.msg = msg]

\* b after it ran the commands cs
Ran(b, cs) == [b EXCEPT !.calls = @ \o cs]

\* git status
GitStatus ==
    IF bis.rebase THEN Git.rebasing \o Hash(0) \o <<"\n">>
    ELSE IF bis.on = None THEN Git.detached \o Hash(bis.at) \o <<"\n">>
    ELSE Git.on_branch \o bis.on \o <<"\n">>

\* A check that never sees a rebase
RebaseNever(out) == FALSE

\* 'rebase in progress' in result.stdout
RebaseInProgress(out) == Contains(out, Git.rebase)

\* git checkout ref: a branch name attaches HEAD to the branch, a hash
\* detaches it
GitCheckout(b, ref) ==
    IF ref = Git.branch THEN [b EXCEPT !.on = Git.branch, !.at = b.tip]
    ELSE [b EXCEPT !.on = None, !.at = Commit(ref)]

\* try_build with commit 'at' checked out
try_build(at) == bis.builds[at]

\* Lines 207-217: the rebase check, then the branch name
CheckRebase ==
    /\ bis.pc = "status"
    /\ LET status == Call("status", None, bis.at)
       IN bis' = IF RebaseInProgress(GitStatus)
                 THEN BisectReturn(Ran(bis, <<status>>), 1, "Rebase in progress")
                 ELSE [Ran(bis, <<status, Call("symbolic-ref", None, bis.at)>>)
                          EXCEPT !.pc = "upstream", !.orig_branch = bis.on]
    /\ UNCHANGED <<runVars, lock, front, pol, sel>>

\* An upstream that resolves wherever HEAD is
UpstreamAssumed == Hash(0)

\* git rev-parse @{u}: the upstream of the branch that HEAD is on; None (a
\* CommandExc) when HEAD is on no branch or the branch tracks nothing
Upstream == IF bis.on # None /\ bis.tracking THEN Hash(0) ELSE None

\* Lines 219-226: the upstream, then HEAD
FindUpstream ==
    /\ bis.pc = "upstream"
    /\ LET ran == Ran(bis, <<Call("rev-parse", <<"@", "{", "u", "}">>, bis.at)>>)
       IN bis' = IF Upstream = None
                 THEN BisectReturn(ran, 1, "Cannot find upstream branch")
                 ELSE [Ran(ran, <<Call("rev-parse", <<"H", "E", "A", "D">>, bis.at)>>)
                          EXCEPT !.pc = "verify_head",
                                 !.upstream = Upstream,
                                 !.head = Hash(bis.at)]
    /\ UNCHANGED <<runVars, lock, front, pol, sel>>

\* Lines 231-236: HEAD has to fail
VerifyHead ==
    /\ bis.pc = "verify_head"
    /\ LET ran == Ran(bis, <<Call("buildman", None, bis.at)>>)
       IN bis' = IF try_build(bis.at)
                 THEN BisectReturn(ran, 1, "HEAD builds successfully")
                 ELSE [ran EXCEPT !.pc = "verify_upstream"]
    /\ UNCHANGED <<runVars, lock, front, pol, sel>>

\* Lines 238-248: the upstream has to build; then back to HEAD
VerifyUpstream ==
    /\ bis.pc = "verify_upstream"
    /\ LET up == GitCheckout(Ran(bis, <<Call("checkout", bis.upstream, bis.at)>>),
                             bis.upstream)
           built == Ran(up, <<Call("buildman", None, up.at),
                              Call("checkout", bis.head, up.at)>>)
           back == GitCheckout(built, bis.head)
       IN bis' = IF ~try_build(up.at)
                 THEN BisectReturn(back, 1, "Upstream fails to build")
                 ELSE [back EXCEPT !.pc = "start"]
    /\ UNCHANGED <<runVars, lock, front, pol, sel>>

\* What git bisect does once a good and a bad commit are known: with one
\* commit left it names it; otherwise it checks out a commit between the two
\* and says so
BisectNext(b) ==
    IF b.bad - b.good <= 1
    THEN {[b EXCEPT !.result = Hash(b.bad) \o <<" ">> \o Git.first_bad \o <<"\n">>
                               \o <<"c", "o", "m", "m", "i", "t", " ">>
                               \o Hash(b.bad) \o <<"\n">>]}
    ELSE {[b EXCEPT !.on = None, !.at = c,
                    !.result = Git.left \o <<"\n", "[">> \o Hash(c) \o <<"]", " ">>
                               \o Subject(c) \o <<"\n">>] :
              c \in (b.good + 1)..(b.bad - 1)}

\* Lines 250-253: git bisect start, bad HEAD, good upstream; what git writes
\* is not captured
StartBisect ==
    /\ bis.pc = "start"
    /\ LET ran == Ran(bis, <<Call("bisect start", None, bis.at),
                             Call("bisect bad", bis.head, bis.at),
                             Call("bisect good", bis.upstream, bis.at)>>)
           marked == [ran EXCEPT !.bisecting = TRUE,
                                 !.start_on = bis.on,
                                 !.start_at = bis.at,
                                 !.bad = Commit(bis.head),
                                 !.good = Commit(bis.upstream),
                                 !.step = 1,
                                 !.pc = "loop"]
       IN bis' \in {[next EXCEPT !.result = <<>>] : next \in BisectNext(marked)}
    /\ UNCHANGED <<runVars, lock, front, pol, sel>>


\* git bisect good or git bisect bad without a commit: HEAD is marked
GitMark(b, good) ==
    IF good THEN [b EXCEPT !.good = IF b.at > @ THEN b.at ELSE @]
    ELSE [b EXCEPT !.bad = IF b.at < @ THEN b.at ELSE @]

\* A parse that never finds the announcement
AnnouncedNever(out) == None

\* A parse that takes the commit that is checked out for the one announced
AnnouncedHere(out) ==
    IF Contains(out, Git.first_bad) THEN Hash(bis.at) ELSE None

\* The line of out that the character at place i is in
LineAt(out, i) ==
    LET from == CHOOSE a \in 1..i :
                    /\ \A k \in a..i : out[k] # "\n"
                    /\ a = 1 \/ out[a - 1] = "\n"
        to == CHOOSE b \in i..Len(out) :
                  /\ \A k \in i..b : out[k] # "\n"
                  /\ b = Len(out) \/ out[b + 1] = "\n"
    IN SubSeq(out, from, to)

\* line.split()[0] of a line that is not blank
FirstWord(line) ==
    LET starts == {a \in 1..Len(line) :
                       /\ ~IsSpace(line[a])
                       /\ \A k \in 1..(a - 1) : IsSpace(line[k])}
        words == UNION {{SubSeq(line, a, b) :
                             b \in {e \in a..Len(line) :
                                        /\ \A k \in a..e : ~IsSpace(line[k])
                                        /\ e = Len(line) \/ IsSpace(line[e + 1])}} :
                        a \in starts}
    IN CHOOSE word \in words : TRUE

\* The first word of the first line of out that has 'is the first bad
\* commit' in it; None when no line has
Announced(out) ==
    LET hits == {i \in 1..Len(out) : LitAt(out, i, Git.first_bad)}
        first == {i \in hits : \A j \in hits : i <= j}
    IN IF hits = {} THEN None
       ELSE CHOOSE word \in {FirstWord(line) :
                                 line \in {LineAt(out, i) : i \in first}} : TRUE

\* A mark that calls every commit bad
MarkCommandBad(built) == "bisect bad"

\* Lines 264-267: git bisect good when the build succeeded, else git bisect bad
MarkCommand(built) == IF built THEN "bisect good" ELSE "bisect bad"

\* Lines 258-278: one turn of the loop: build the commit that is checked out,
\* mark it, and look for the announcement in what git wrote
BisectStep ==
    /\ bis.pc = "loop"
    /\ \E built \in {try_build(bis.at)} :
       LET ran == Ran(bis, <<Call("rev-parse", <<"H", "E", "A", "D">>, bis.at),
                             Call("log", None, bis.at),
                             Call("buildman", None, bis.at),
                             Call(MarkCommand(built), None, bis.at)>>)
       IN \E next \in BisectNext(GitMark(ran, built)) :
              \E bad_commit \in {Announced(next.result)} :
                  bis' = IF bad_commit # None
                         THEN [next EXCEPT !.pc = "finish", !.bad_commit = bad_commit]
                         ELSE [next EXCEPT !.step = @ + 1]
    /\ UNCHANGED <<runVars, lock, front, pol, sel>>

\* git bisect reset: back to where HEAD was at git bisect start
GitBisectReset(b) ==
    [b EXCEPT !.bisecting = FALSE, !.on = b.start_on, !.at = b.start_at,
              !.good = NoIndex, !.bad = NoIndex,
              !.start_on = None, !.start_at = NoIndex]

\* A report of the whole hash
AbbrevNone(hash) == hash

\* hash[:12]
Abbrev(hash) == SubSeq(hash, 1, IF Len(hash) < ShortLen THEN Len(hash) ELSE ShortLen)

\* Lines 280-291: the subject of the bad commit, the clean-up, the report
BisectFinish ==
    /\ bis.pc = "finish"
    /\ LET subject == Subject(Commit(bis.bad_commit))
           reset == GitBisectReset(Ran(bis, <<Call("log", bis.bad_commit, bis.at),
                                              Call("bisect reset", None, bis.at)>>))
           back == IF Truthy(bis.orig_branch)
                   THEN GitCheckout(Ran(reset, <<Call("checkout", bis.orig_branch,
                                                      reset.at)>>),
                                    bis.orig_branch)
                   ELSE reset
       IN bis' = [BisectReturn(back, 0, "First bad commit")
                     EXCEPT !.report = Git.report \o Abbrev(bis.bad_commit)
                                       \o <<" ">> \o subject]
    /\ UNCHANGED <<runVars, lock, front, pol, sel>>

NextBisect ==
    \/ CheckRebase
    \/ FindUpstream
    \/ VerifyHead
    \/ VerifyUpstream
    \/ StartBisect
    \/ BisectStep
    \/ BisectFinish

SpecBisect == InitBisect /\ [][NextBisect]_vars

\* Every git and build command returns
SpecBisectFair == SpecBisect /\ WF_vars(NextBisect)


(***************************************************************************)
(* The selection of tests: parse_test_specs, resolve_specs, validate_specs *)
(***************************************************************************)
\* args.tests: those of FrontTests, and 'all' alone and among others, the
\* pytest and the dotted form, tokens with a rest, two and three arguments
\* with and without glob characters
SelTests ==
    FrontTests \cup
    {<<<<"a", "l", "l">>>>,
     <<<<"t", "e", "s", "t", "_", "a">>, <<"h", "*">>>>,
     <<<<"l", "i", "b", " ", "a", "b", "c", " ", "d", "e", "f">>>>,
     <<<<"d", "m", " ", "x", ".", "y">>>>,
     <<<<"u", "t", "_", "a", "_", "t", "e", "s", "t", "_", "b", " ", "c">>>>,
     <<<<"t", "e", "s", "t", "_", "a", "_", "t", "e", "s", "t", "_", "b">>>>,
     <<<<"a", "l", "l">>, <<"d", "m">>>>,
     <<<<"d", "m">>, <<"a", "l", "l">>>>,
     <<<<"u", "t", "_", "l", "i", "b", "_", "a", "b", "c">>>>,
     <<<<"u", "t", "_", "d", "m">>>>,
     <<<<"d", "m", ".", "t", "e", "s", "t", "_", "h", "o", "s", "t">>>>,
     <<<<"a", "_", "b", " ", "c">>>>,
     <<<<"t", "e", "s", "t", "_", "x", " ", "y">>>>,
     <<<<"l", "i", "b", "_", "t", "e", "s", "t", "_", "a", "b", "c", " ", "z">>>>,
     <<<<"d", "m">>, <<"x", "?">>>>,
     <<<<"l", "i", "b">>, <<"a", "[", "b", "]">>>>,
     <<<<"d", "m">>, <<"l", "i", "b">>, <<"h", "*">>>>,
     <<<<"d", "m">>, <<"h", "o", "s", "t">>>>,
     <<<<"a", "b", "c">>>>,
     <<<<"d", "m">>, <<"*", "s", "t">>>>,
     <<<<"l", "i", "b", "_", "t", "e", "s", "t", "_", "a", "b", "c">>, <<"t", "e", "s", "t", "_", "h", "o", "s", "t">>>>,
     <<<<" ", " ", "d", "m">>>>}

\* get_tests_from_nm(sandbox): those of Inventories, one where two suites
\* have a test of the same ending, and one whose names have no suite in them
SelInventories ==
    Inventories \cup
    {<<<<<<"d", "m">>, <<"d", "m", "_", "t", "e", "s", "t", "_", "h", "o", "s", "t">>>>, <<<<"l", "i", "b">>, <<"l", "i", "b", "_", "t", "e", "s", "t", "_", "a", "b", "c">>>>, <<<<"l", "i", "b">>, <<"l", "i", "b", "_", "t", "e", "s", "t", "_", "h", "o", "s", "t">>>>>>,
     <<<<<<"d", "m">>, <<"t", "e", "s", "t", "_", "h", "o", "s", "t">>>>, <<<<"e", "n", "v">>, <<"t", "e", "s", "t", "_", "x">>>>>>}

\* The state after construction: a command line and the tests of the binary
InitSelect ==
    /\ cmd = "select"
    /\ jobs = 0
    /\ pending = <<>>
    /\ consumed = <<>>
    /\ pc = <<>>
    /\ progs = <<>>
    /\ shared = [total |-> 0, run |-> 0]
    /\ results = <<>>
    /\ stdout = <<>>
    /\ main_pc = "run"
    /\ exit_code = 0
    /\ uman = Off
    /\ predicted = 0
    /\ lock = Off
    /\ front = Off
    /\ pol = Off
    /\ bis = Off
    /\ \E tool \in {"utool", "uman"}, tests \in SelTests, all_tests \in SelInventories :
           sel = [pc |-> "start",
                  tool |-> tool,
                  tests |-> tests,
                  all_tests |-> all_tests,
                  specs |-> <<>>,
                  resolved |-> <<>>,
                  unmatched |-> <<>>,
                  invalid |-> <<>>,
                  again |-> <<>>]

\* specs = parse_test_specs(args.tests)
SelParse ==
    /\ sel.pc = "start"
    /\ \E specs \in {parse_test_specs(sel.tests, sel.tool)} :
           sel' = [sel EXCEPT !.pc = "parsed", !.specs = specs]
    /\ UNCHANGED <<runVars, lock, front, pol, bis>>

\* utool: specs = resolve_specs(sandbox, specs);
\* uman: specs, unmatched = resolve_specs(sandbox, specs)
SelResolve ==
    /\ sel.pc = "parsed"
    /\ \E r \in {IF sel.tool = "uman" THEN uman_resolve_specs(sel.all_tests, sel.specs)
                 ELSE [resolved |-> resolve_specs(sel.all_tests, sel.specs),
                       unmatched |-> <<>>]} :
           sel' = [sel EXCEPT !.pc = "resolved",
                              !.resolved = r.resolved,
                              !.unmatched = r.unmatched]
    /\ UNCHANGED <<runVars, lock, front, pol, bis>>

\* uman do_test, when resolve_specs left nothing unmatched:
\* unmatched = validate_specs(sandbox, specs)
SelValidate ==
    /\ sel.pc = "resolved"
    /\ sel.tool = "uman"
    /\ sel.unmatched = <<>>
    /\ \E invalid \in {validate_specs(sel.all_tests, sel.resolved)} :
           sel' = [sel EXCEPT !.pc = "validated", !.invalid = invalid]
    /\ UNCHANGED <<runVars, lock, front, pol, bis>>

\* The text '<suite>' of a spec without a pattern, '<suite>_test_<pattern>'
\* of a spec with one
CanonInfix(spec) ==
    IF spec[2] = None THEN spec[1] ELSE spec[1] \o Word.infix \o spec[2]

\* The text '<suite>' of a spec without a pattern, '<suite> <pattern>' of a
\* spec with one
CanonSpace(spec) ==
    IF spec[2] = None THEN spec[1] ELSE spec[1] \o <<" ">> \o spec[2]

\* parse_test_specs of the one argument text
ParseText(text, tool) ==
    CHOOSE specs \in {parse_test_specs(args, tool) : args \in {<<text>>}} : TRUE

\* parse_test_specs once more, for every parsed spec that has a suite, of
\* each of the two texts that name the spec
SelReparse ==
    /\ sel.pc = "parsed"
    /\ \E again \in {[i \in 1..Len(sel.specs) |->
                         IF sel.specs[i][1] = None THEN <<>>
                         ELSE <<ParseText(CanonInfix(sel.specs[i]), sel.tool),
                                ParseText(CanonSpace(sel.specs[i]), sel.tool)>>]} :
           sel' = [sel EXCEPT !.pc = "reparsed", !.again = again]
    /\ UNCHANGED <<runVars, lock, front, pol, bis>>

NextSelect ==
    \/ SelParse
    \/ SelResolve
    \/ SelValidate
    \/ SelReparse

SpecSelect == InitSelect /\ [][NextSelect]_vars


(***************************************************************************)
(* predict_test_count                                                      *)
(***************************************************************************)
\* The most test records that get_test_flags returns
MaxRecords == 2

\* Unit test flags from include/test/test.h
UTF_FLAT_TREE == 8
UTF_LIVE_TREE == 16
UTF_DM == 128

\* A test for flags that are the mask and nothing else
FlagsAre(flags, mask) == flags = mask

\* flags & mask, for a mask of one bit
HasFlag(flags, mask) == (flags \div mask) % 2 = 1

\* The names of the test records: tests of suite dm with and without the
\* prefix of the suite, video tests and video_base
RecordNames ==
    {<<"d", "m", "_", "t", "e", "s", "t", "_", "v", "i", "d", "e", "o", "_", "b", "a", "s", "e">>, <<"d", "m", "_", "t", "e", "s", "t", "_", "v", "i", "d", "e", "o", "_", "x">>, <<"h", "o", "s", "t">>}

\* The flags of the test records: every combination of UTF_FLAT_TREE,
\* UTF_LIVE_TREE and UTF_DM, alone and with another flag
RecordFlags ==
    {a + b + c : a \in {0, UTF_FLAT_TREE}, b \in {0, UTF_LIVE_TREE}, c \in {0, UTF_DM}}
        \cup {1, UTF_FLAT_TREE + 1, UTF_DM + 1}

\* The patterns of a prediction: none, the empty one, and globs
Patterns == {None, <<>>, <<"v", "i", "d", "e", "o", "*">>, <<"h", "?", "s", "t">>}

\* match(name): the name without the prefix of the suite matches the pattern
PatternMatch(suite, name, pattern) ==
    LET pre == suite \o Word.infix
        short == IF StartsWith(name, pre) THEN SubSeq(name, Len(pre) + 1, Len(name))
                 ELSE name
    IN GlobMatch(short, pattern)

\* A count in which a flat-tree test runs on the live tree alone
RunsLiveOnly(name, flags, flattree) ==
    IF HasFlag(flags, UTF_FLAT_TREE) THEN (IF flattree THEN 0 ELSE 1)
    ELSE 1

\* The body of the loop: what one record adds to count
Runs(name, flags, flattree) ==
    IF HasFlag(flags, UTF_FLAT_TREE) THEN (IF flattree THEN 1 ELSE 0)
    ELSE 1 + (IF /\ flattree
                 /\ HasFlag(flags, UTF_DM)
                 /\ ~HasFlag(flags, UTF_LIVE_TREE)
                 /\ \/ ~Contains(name, <<"v", "i", "d", "e", "o">>)
                    \/ Contains(name, <<"v", "i", "d", "e", "o", "_", "b", "a", "s", "e">>)
              THEN 1 ELSE 0)

RECURSIVE CountRuns(_, _)
\* The loop over test_flags
CountRuns(test_flags, flattree) ==
    IF test_flags = <<>> THEN 0
    ELSE Runs(test_flags[1][1], test_flags[1][2], flattree)
         + CountRuns(Tail(test_flags), flattree)

\* predict_test_count, of the records that get_test_flags returns for the
\* suite; uman's takes no pattern
predict_test_count(test_flags, suite, flattree, pattern) ==
    IF test_flags = <<>> THEN 0
    ELSE IF Truthy(pattern)
         THEN CountRuns(SelectSeq(test_flags,
                                  LAMBDA t : PatternMatch(suite, t[1], pattern)),
                        flattree)
    ELSE CountRuns(test_flags, flattree)

\* The state after construction: the records of suite dm, a pattern and the
\* tool
InitPredict ==
    /\ cmd = "predict"
    /\ jobs = 0
    /\ pending = <<>>
    /\ consumed = <<>>
    /\ pc = <<>>
    /\ progs = <<>>
    /\ shared = [total |-> 0, run |-> 0]
    /\ results = <<>>
    /\ stdout = <<>>
    /\ main_pc = "run"
    /\ exit_code = 0
    /\ uman = Off
    /\ predicted = 0
    /\ lock = Off
    /\ front = Off
    /\ pol = Off
    /\ bis = Off
    /\ \E n \in 0..MaxRecords, tool \in {"utool", "uman"}, pattern \in Patterns :
           \E test_flags \in [1..n -> RecordNames \X RecordFlags] :
               /\ tool = "uman" => pattern = None
               /\ sel = [pc |-> "start",
                         tool |-> tool,
                         suite |-> Word.dm,
                         test_flags |-> test_flags,
                         pattern |-> pattern,
                         count |-> <<>>]

\* predict_test_count without and with the flat tree
Predict ==
    /\ sel.pc = "start"
    /\ \E off \in {predict_test_count(sel.test_flags, sel.suite, FALSE, sel.pattern)},
          on \in {predict_test_count(sel.test_flags, sel.suite, TRUE, sel.pattern)} :
           sel' = [sel EXCEPT !.pc = "predicted",
                              !.count = [flattree \in BOOLEAN |->
                                             IF flattree THEN on ELSE off]]
    /\ UNCHANGED <<runVars, lock, front, pol, bis>>

NextPredict == Predict

SpecPredict == InitPredict /\ [][NextPredict]_vars

(***************************************************************************)
(* What the properties speak of                                            *)
(***************************************************************************)
\* A test failure was detected by the command
FailureDetected ==
    CASE cmd = "seq" -> progs[0].failed_tests # <<>>
      [] cmd = "par" -> \E w \in Workers : results[w].failed_tests # <<>>
      [] OTHER -> ~uman.res.none /\ uman.res.failed > 0

\* A sandbox process that was launched returned non-zero
LaunchedReturnedNonZero ==
    CASE cmd = "uman" -> uman.launched /\ uman.proc.return_code # 0
      [] OTHER -> \E w \in Workers : pc[w] = "done" /\ results[w].returncode # 0

\* The complete lines of a text: those that end in a newline
CompleteLines(text) == SubSeq(SplitNL(text), 1, Len(SplitNL(text)) - 1)

\* How many of the lines are 'Test: <name>: <file>' lines
TestLineCount(lines) ==
    Cardinality({i \in 1..Len(lines) : MatchTest(lines[i]).ok})

\* The index of the k-th 'Test:' line of the lines
KthTestLine(lines, k) ==
    CHOOSE i \in 1..Len(lines) :
        /\ MatchTest(lines[i]).ok
        /\ Cardinality({j \in 1..i : MatchTest(lines[j]).ok}) = k

\* The names the 'Test:' lines give, in the order of the lines
TestNames(lines) ==
    [k \in 1..TestLineCount(lines) |-> MatchTest(lines[KthTestLine(lines, k)]).g1]

\* The index of the first 'Test:' or 'Tests run:' line after line i, or one
\* past the last line when there is none
RegionEnd(lines, i) ==
    LET ends == {j \in (i + 1)..Len(lines) :
                     MatchTest(lines[j]).ok \/ MatchTestsRun(lines[j]).ok}
    IN IF ends = {} THEN Len(lines) + 1
       ELSE CHOOSE j \in ends : \A k \in ends : j <= k

\* A line that is not blank and is none of the three marker lines
IsDiagLine(line) ==
    /\ StripNonEmpty(line)
    /\ ~MatchRunning(line).ok /\ ~MatchTest(line).ok /\ ~MatchTestsRun(line).ok

\* The diagnostic lines of the test that the 'Test:' line i opens
DiagBuffer(lines, i) ==
    SelectSeq(SubSeq(lines, i + 1, RegionEnd(lines, i) - 1), IsDiagLine)

\* The line holds one of the five failure-indicating substrings
HasFailureWord(line) ==
    \E pat \in {PatExpected, PatFailed, PatAssert, PatError, PatFailure} :
        Contains(line, pat)

\* A TestProgress as run_tests or run_worker constructs it for worker w
FreshProgress(w) ==
    [NewTestProgress(IF cmd = "seq" THEN predicted ELSE 0, progs[w].specs)
        EXCEPT !.silent = progs[w].silent, !.shared = progs[w].shared]

\* The TestProgress after one handle_output call with all that was read
WholeStream(w) ==
    HandleOutput([p |-> FreshProgress(w), sh |-> [total |-> 0, run |-> 0],
                  out |-> <<>>], consumed[w]).p

\* The line starts with 'Result: ', the status, an optional colon, a space
\* and a name
IsResultLine(line, status) ==
    LET c == Len(LitResultColon) + 1 + Len(status) + 1
    IN /\ LitAt(line, 1, LitResultColon \o <<" ">> \o status)
       /\ \/ LitAt(line, c, <<":", " ">>) /\ Len(line) >= c + 2
             /\ IsNonSpace(line[c + 2])
          \/ LitAt(line, c, <<" ">>) /\ Len(line) >= c + 1
             /\ IsNonSpace(line[c + 1])

\* The line is a 'Result:' line of one of the three statuses
IsAnyResultLine(line) ==
    \E status \in {LitPass, LitFail, LitSkip} : IsResultLine(line, status)

\* How many of the lines are 'Result:' lines of the status
ResultLineCount(lines, status) ==
    Cardinality({i \in 1..Len(lines) : IsResultLine(lines[i], status)})

\* A line of the legacy format, 'Test: <name> ... ok|FAILED|SKIPPED'
IsLegacyLine(line) ==
    /\ LitAt(line, 1, LitTestColon)
    /\ Contains(line, <<" ", ".", ".", ".", " ">>)

\* The line is not of the legacy format
IsNotLegacyLine(line) == ~IsLegacyLine(line)

\* uman run_tests has run a process and has its output
UmanHasOutput == cmd = "uman" /\ uman.launched /\ uman.proc.has_result

\* The texts of the events of a kind on the terminal, in order
Printed(kind) ==
    [k \in 1..Len(SelectSeq(stdout, LAMBDA e : e.kind = kind)) |->
        SelectSeq(stdout, LAMBDA e : e.kind = kind)[k].text]

\* The lines among the last five of a text that are not blank
LastFiveNonBlank(text) ==
    LET ls == SplitLines(text)
        from == IF Len(ls) > 5 THEN Len(ls) - 4 ELSE 1
    IN SelectSeq(SubSeq(ls, from, Len(ls)), StripNonEmpty)

\* The events of a failure report or of the summary at the end of the run
IsReport(e) == e.kind \in {"fail", "summary", "summary_failed"}

(***************************************************************************)
(* Exit code                                                               *)
(***************************************************************************)
\* C1: when a test command has returned, its exit code is 0 only if no test
\* failure was detected and every launched process returned 0 (so a detected
\* failure or a non-zero process makes it non-zero). uman run_tests returns
\* the process's return code whatever it counted, which violates this
C1_ExitCodeReflectsFailures ==
    (main_pc = "done" /\ exit_code = 0)
        => (~FailureDetected /\ ~LaunchedReturnedNonZero)

(***************************************************************************)
(* The counter of TestProgress                                             *)
(***************************************************************************)
\* C2: run equals the number of complete 'Test: <name>: <file>' lines the
\* parser has read (one increment per such line and no other), it does not
\* exceed the number of such lines in the bytes of the stream read so far,
\* and no step decreases it
C2_RunCountsTestLines ==
    /\ [](\A w \in Workers :
             /\ progs[w].run = TestLineCount(CompleteLines(progs[w].output_lines))
             /\ progs[w].run <= TestLineCount(CompleteLines(Decode(consumed[w]))))
    /\ [][\A w \in Workers : progs'[w].run >= progs[w].run]_vars

\* Two tests have been counted in a stream that also holds another line
C2_Witness ==
    /\ cmd = "seq"
    /\ progs[0].run = 2
    /\ Len(CompleteLines(progs[0].output_lines)) = 3

(***************************************************************************)
(* One outcome per test                                                    *)
(***************************************************************************)
\* C3: when the stream of a process has ended, test_results holds one entry
\* for every test counted in run, named as the 'Test:' lines in their order.
\* No test is finalized at the end of the stream, so a test that no 'Test:'
\* or 'Tests run:' line follows has no entry, which violates this
C3_OneOutcomePerTest ==
    \A w \in Workers :
        (cmd # "uman" /\ pc[w] = "done")
            => /\ Len(progs[w].test_results) = progs[w].run
               /\ [k \in 1..Len(progs[w].test_results) |->
                       progs[w].test_results[k][2]]
                  = TestNames(CompleteLines(progs[w].output_lines))

(***************************************************************************)
(* Chunking                                                                *)
(***************************************************************************)
\* C4: however the stream read so far was cut into chunks, run, test_results,
\* failed_tests, failures, total and suite are those that one handle_output
\* call with the whole of it gives. Each chunk is decoded on its own, so a
\* cut inside a multi-byte character violates this
C4_ChunkingInvariant ==
    \A w \in Workers : \A whole \in {WholeStream(w)} :
        cmd # "uman"
            => /\ progs[w].run = whole.run
               /\ progs[w].test_results = whole.test_results
               /\ progs[w].failed_tests = whole.failed_tests
               /\ progs[w].failures = whole.failures
               /\ progs[w].total = whole.total
               /\ progs[w].suite = whole.suite

(***************************************************************************)
(* The failure heuristic                                                   *)
(***************************************************************************)
\* C5: every finalized test is one whose 'Test:' line is followed by a 'Test:'
\* or 'Tests run:' line; it is recorded failed if and only if a line of its
\* diagnostic buffer holds one of the five substrings; failed_tests lists the
\* failed ones; the buffer of the open test is the non-blank, non-marker
\* lines read since its 'Test:' line, and with no test open no line is kept
C5_FailedIffDiagnosticPattern ==
    \A w \in Workers : \A ls \in {CompleteLines(progs[w].output_lines)} :
        LET tr == progs[w].test_results
            n == TestLineCount(ls)
        IN /\ \A k \in 1..Len(tr) :
                  \A i \in {KthTestLine(ls, k)} :
                      /\ RegionEnd(ls, i) <= Len(ls)
                      /\ tr[k][3] = ~(\E d \in 1..Len(DiagBuffer(ls, i)) :
                                          HasFailureWord(DiagBuffer(ls, i)[d]))
           /\ progs[w].failed_tests
                  = [k \in 1..Len(SelectSeq(tr, LAMBDA r : ~r[3])) |->
                        <<SelectSeq(tr, LAMBDA r : ~r[3])[k][1],
                          SelectSeq(tr, LAMBDA r : ~r[3])[k][2]>>]
           /\ progs[w].cur_test.open
                  => /\ n > 0
                     /\ progs[w].cur_test.output
                            = DiagBuffer(ls, KthTestLine(ls, n))
           /\ ~progs[w].cur_test.open => progs[w].cur_test.output = <<>>

\* A test with one diagnostic line that holds 'Error' has been finalized as
\* failed
C5_Witness ==
    /\ cmd = "seq"
    /\ Len(progs[0].test_results) = 1
    /\ ~progs[0].test_results[1][3]
    /\ Len(progs[0].failed_tests) = 1
    /\ Len(CompleteLines(progs[0].output_lines)) = 3
    /\ CompleteLines(progs[0].output_lines)[2] = LineError

C7_CountsAreResultLines ==
    UmanHasOutput =>
        \A lines \in {SplitLines(uman.proc.stdout)} :
            \A c \in {parse_results(uman.proc.stdout)} :
                /\ c.none <=> (\A i \in 1..Len(lines) : ~IsAnyResultLine(lines[i]))
                /\ ~c.none =>
                       /\ c.passed = ResultLineCount(lines, LitPass)
                       /\ c.failed = ResultLineCount(lines, LitFail)
                       /\ c.skipped = ResultLineCount(lines, LitSkip)
                       /\ c.passed + c.failed + c.skipped
                              = Cardinality({i \in 1..Len(lines) :
                                                IsAnyResultLine(lines[i])})
                /\ c = parse_results(JoinLines(SelectSeq(lines, IsNotLegacyLine)))
                /\ (~c.none \/ ~uman.args.legacy) => uman.res = c

\* One passed and one skipped test counted in an output with a legacy
\* FAILED line
C7_Witness ==
    /\ UmanHasOutput
    /\ SplitLines(uman.proc.stdout)
           = <<LineResultPass, LineLegacyFailed, LineResultSkip>>
    /\ uman.res = [none |-> FALSE, passed |-> 1, failed |-> 0, skipped |-> 1]

(***************************************************************************)
(* Runs without results                                                    *)
(***************************************************************************)
\* C8: when the process uman ran returned non-zero and its output holds no
\* result line of either format, run_tests returns 1, prints the warning and
\* no summary, and prints every non-blank line of the output. run_tests
\* echoes the output only when verbose or when a failure was counted, so
\* the output is not shown, which violates this
C8_NoResultsShowsOutput ==
    (/\ UmanHasOutput
     /\ main_pc = "done"
     /\ uman.proc.return_code # 0
     /\ parse_results(uman.proc.stdout).none
     /\ parse_legacy_results(uman.proc.stdout).none)
        => /\ exit_code = 1
           /\ \E i \in 1..Len(stdout) : stdout[i].kind = "warning"
           /\ \A i \in 1..Len(stdout) : stdout[i].kind # "results"
           /\ \A ls \in {SplitLines(uman.proc.stdout)} :
                  \A n \in 1..Len(ls) :
                      StripNonEmpty(ls[n])
                          => \E i \in 1..Len(stdout) :
                                 stdout[i] = Ev("line", ls[n], 0, 0)

\* C9: when utool has returned, no test ran and a process returned non-zero,
\* the exit code is non-zero, no summary is printed, and the lines printed
\* are the non-blank lines among the last five lines of the output of a
\* process that returned non-zero, unchanged
C9_ZeroTestsShowsErrorTail ==
    (/\ cmd \in {"seq", "par"}
     /\ main_pc = "done"
     /\ \A w \in Workers : progs[w].run = 0
     /\ LaunchedReturnedNonZero)
        => /\ exit_code # 0
           /\ \A i \in 1..Len(stdout) :
                  stdout[i].kind \notin {"summary", "summary_failed"}
           /\ \E w \in Workers :
                  /\ pc[w] = "done"
                  /\ results[w].returncode # 0
                  /\ Printed("line") = LastFiveNonBlank(results[w].output_lines)

\* The process wrote six lines, the fifth blank, and returned 1: four lines
\* are printed, the first line is not
C9_Witness ==
    /\ cmd = "seq"
    /\ main_pc = "done"
    /\ progs[0].run = 0
    /\ results[0].returncode = 1
    /\ SplitLines(results[0].output_lines)
           = <<LineBoot, LineBoot, LineBoot, LineBoot, LineBlank, LineBoot>>
    /\ Printed("line") = <<LineBoot, LineBoot, LineBoot, LineBoot>>

(***************************************************************************)
(* The progress line                                                       *)
(***************************************************************************)
\* C10: whenever a failure report or the summary is on the terminal, a clear
\* of the progress line stands between it and every progress display before
\* it. The workers of run_tests_parallel are silent, so their
\* clear_progress does nothing while SharedProgress.increment displays the
\* progress: their failure reports follow an uncleared progress line
C10_ProgressClearedBeforeReport ==
    \A i \in 1..Len(stdout) :
        IsReport(stdout[i])
            => \A j \in 1..(i - 1) :
                   stdout[j].kind = "progress"
                       => \E k \in (j + 1)..(i - 1) : stdout[k].kind = "clear"

(***************************************************************************)
(* The shared progress counter                                             *)
(***************************************************************************)
\* The sum of the run counters of the workers' own parsers
RECURSIVE SumProgRun(_)
SumProgRun(n) == IF n = 0 THEN 0 ELSE SumProgRun(n - 1) + progs[n - 1].run

\* C11: under every interleaving of the threads, the values that
\* SharedProgress.increment displays are 1, 2, ..., k in this order, each
\* once; at most one thread is inside the lock; SharedProgress.run counts
\* every 'Test:' line whose increment has been stored; and once every worker
\* has finished, SharedProgress.run is the sum of the workers' run counts
C11_SharedIncrementAtomic ==
    /\ \A i \in 1..Len(stdout) : stdout[i].a = i
    /\ Cardinality({w \in Workers :
                        lock.at[w] \in {"load", "store", "display", "release"}}) <= 1
    /\ shared.run = SumProgRun(jobs)
                       - Cardinality({w \in Workers :
                                         lock.at[w] \in {"acquire", "load", "store"}})
    /\ (\A w \in Workers : pc[w] = "done")
           => /\ shared.run = SumProgRun(jobs)
              /\ Len(stdout) = shared.run

\* Two threads have been through increment, and a third 'Test:' line has
\* been read while another thread is inside the lock
C11_Witness ==
    /\ shared.run = 2
    /\ \E v, w \in Workers :
           /\ v # w
           /\ progs[v].run >= 1 /\ progs[w].run >= 1
           /\ lock.at[v] = "acquire"
           /\ lock.at[w] = "store"

(***************************************************************************)
(* Aggregation of the workers' results                                     *)
(***************************************************************************)
\* What run_tests_parallel printed after it cleared the progress line
FinalReport ==
    LET clears == {i \in 1..Len(stdout) : stdout[i].kind = "clear"}
    IN IF clears = {} THEN <<>>
       ELSE SubSeq(stdout, (CHOOSE i \in clears : \A k \in clears : k <= i) + 1,
                   Len(stdout))

\* The failures of the workers' own parsers as 'suite name' texts, for the
\* workers 0..n-1 in this order
RECURSIVE OwnFailures(_)
OwnFailures(n) ==
    IF n = 0 THEN <<>>
    ELSE OwnFailures(n - 1)
         \o [k \in 1..Len(progs[n - 1].failed_tests) |->
                progs[n - 1].failed_tests[k][1] \o <<" ">>
                \o progs[n - 1].failed_tests[k][2]]

\* C12: when run_tests_parallel has reported, every worker thread has ended;
\* the total it reports is the sum of the run counts of the workers' parsers;
\* the failures it lists are those of worker 0, then worker 1, and so on;
\* and the result of each worker that ran holds what its own parser made of
\* its own process's output, that of a worker that did not start nothing
C12_AggregatesAfterJoin ==
    (cmd = "par" /\ lock = Off /\ main_pc = "done")
        => /\ \A w \in Workers : pc[w] \in {"done", "crashed"}
           /\ \A i \in 1..Len(FinalReport) :
                  /\ FinalReport[i].kind = "summary"
                         => FinalReport[i].a = SumProgRun(jobs)
                  /\ FinalReport[i].kind = "summary_failed"
                         => /\ FinalReport[i].b = SumProgRun(jobs)
                            /\ FinalReport[i].a = Len(OwnFailures(jobs))
           /\ [k \in 1..Len(SelectSeq(FinalReport, LAMBDA e : e.kind = "fail")) |->
                   SelectSeq(FinalReport, LAMBDA e : e.kind = "fail")[k].text]
              = OwnFailures(jobs)
           /\ \A w \in Workers : \A whole \in {WholeStream(w)} :
                  IF pc[w] = "done"
                  THEN /\ results[w].run = whole.run
                       /\ results[w].test_results = whole.test_results
                       /\ results[w].failed_tests = whole.failed_tests
                  ELSE results[w] = NewWorkerResult

\* Worker 0 reported the failure of b and worker 1 that of a, and the list
\* names b first
C12_Witness ==
    /\ cmd = "par" /\ lock = Off /\ main_pc = "done"
    /\ jobs = 2
    /\ Len(progs[0].failed_tests) = 1 /\ progs[0].failed_tests[1][2] = <<"b">>
    /\ Len(progs[1].failed_tests) = 1 /\ progs[1].failed_tests[1][2] = <<"a">>
    /\ \E i \in 1..Len(FinalReport) :
           FinalReport[i].kind = "summary_failed" /\ FinalReport[i].a = 2
                                                  /\ FinalReport[i].b = 2

\* C13: when run_tests_parallel has reported and a worker did not start, or
\* no worker's output held a test, the exit code is non-zero and no summary
\* of a run is printed. A worker whose Popen raises leaves returncode 0 in
\* its WorkerResult, and a process that writes nothing parseable may return
\* 0: both are reported as '0 tests' with exit code 0, which violates this
C13_StartFailureIsError ==
    (/\ cmd = "par" /\ lock = Off /\ main_pc = "done"
     /\ \/ \E w \in Workers : pc[w] = "crashed"
        \/ SumProgRun(jobs) = 0)
        => /\ exit_code # 0
           /\ \A i \in 1..Len(stdout) : stdout[i].kind # "summary"

(***************************************************************************)
(* C14                                                                     *)
(***************************************************************************)
RECURSIVE SplitOn(_, _)
\* the pieces of s between the occurrences of sep
SplitOn(s, sep) ==
    IF ~Contains(s, sep) THEN <<s>>
    ELSE LET p == SplitOnce(s, sep) IN <<p[1]>> \o SplitOn(p[2], sep)

\* the ut clauses of the command that a sandbox process was given with -c
UtClauses(args) ==
    IF args[Len(args)] = <<>> THEN <<>>
    ELSE SplitOn(args[Len(args)], <<";", " ">>)

\* what a clause says of a spec after 'ut' and its flags
SpecText(sp) ==
    IF sp[2] = None \/ sp[2] = <<>> THEN sp[1] ELSE sp[1] \o <<" ">> \o sp[2]

\* C14: utool with N > 1 jobs starts the worker processes in the order of
\* their ids 0, 1, ..: the process started as number i + 1 has, for every
\* spec and in the order of the specs, the clause 'ut -PN:i <spec>' and no
\* other clause; once the last is started there are exactly N. With one job
\* exactly one process is started, its clauses are 'ut <spec>' and its
\* command holds no -P.
C14_PartitionDirectives ==
    front.tool = "utool" =>
        LET n == front.jobs
            L == Launched
        IN /\ Len(L) <= n
           /\ front.pc = "running" => Len(L) = n
           /\ \A i \in 0..(Len(L) - 1) :
                  LET cl == UtClauses(L[i + 1].args)
                      ut == IF n > 1
                            THEN <<"u", "t", " ", "-", "P">> \o Str(n) \o <<":">>
                                 \o Str(i) \o <<" ">>
                            ELSE <<"u", "t", " ">>
                  IN /\ Len(cl) = Len(front.specs)
                     /\ \A k \in 1..Len(cl) : cl[k] = ut \o SpecText(front.specs[k])
                     /\ n <= 1 => ~Contains(L[i + 1].args[Len(L[i + 1].args)],
                                            <<"-", "P">>)

\* MaxWorkers processes were started for two specs
C14_Witness ==
    /\ front.tool = "utool"
    /\ front.pc = "running"
    /\ front.jobs = MaxWorkers
    /\ Len(front.specs) = 2
    /\ Len(Launched) = MaxWorkers

(***************************************************************************)
(* C15                                                                     *)
(***************************************************************************)
RECURSIVE PartitionText(_, _, _, _, _)
\* What worker i of n writes when the binary gives test number k (from 0) to
\* worker k % n: the 'Test:' lines of its tests with the lines that follow
\* them, and the lines that belong to no test. lines are the pieces of the
\* whole output between its '\n', the last one not ended by '\n'; owner is
\* the worker of the test that is open, n when none is
PartitionText(lines, n, i, k, owner) ==
    IF lines = <<>> THEN <<>>
    ELSE LET l == Head(lines)
             o == IF StartsWith(l, LitTest) THEN k % n
                  ELSE IF StartsWith(l, LitTestsRun) THEN n
                  ELSE owner
             rest == PartitionText(Tail(lines), n, i,
                                   IF StartsWith(l, LitTest) THEN k + 1 ELSE k, o)
         IN IF o \notin {i, n} THEN rest
            ELSE IF Len(lines) = 1 THEN l
            ELSE l \o <<"\n">> \o rest

RECURSIVE PartitionedRun(_, _)
\* The sum of the run counts of workers 0..i-1 of n, each reading in one
\* piece what the binary writes for its partition of the tests of stream 0
PartitionedRun(n, i) ==
    IF i = 0 THEN 0
    ELSE PartitionedRun(n, i - 1)
         + HandleOutput([p |-> NewTestProgress(0, <<>>),
                         sh |-> [total |-> 0, run |-> 0], out |-> <<>>],
                        PartitionText(SplitNL(consumed[0]), n, i - 1, 0, n)).p.run

\* C15: when the sequential run has read all that the binary wrote, its run
\* count is the sum of the run counts of the workers of a parallel run of the
\* same tests, for every number of workers, the binary giving each test to
\* exactly one worker. The sequential count depends on where the reads cut
\* the stream (C4), so this is violated
C15_ParallelSumIsSequentialRun ==
    (cmd = "seq" /\ pc[0] = "done")
        => \A n \in 2..MaxJobs : PartitionedRun(n, n) = progs[0].run

(***************************************************************************)
(* C16                                                                     *)
(***************************************************************************)
\* The command needs the fixture: the dm fixture as needs_dm_init of the
\* command says, the bootstd fixture in utool as needs_bootstd_init says
FixtureNeeded(kind) ==
    IF kind = "dm"
    THEN IF front.tool = "utool" THEN needs_dm_init(front.tests)
         ELSE uman_needs_dm_init(front.specs)
    ELSE front.tool = "utool" /\ needs_bootstd_init(front.tests)

\* The generator of the fixture ran as event number i of the command
Generated(i, kind) == front.log[i].ev = "generate" /\ front.log[i].kind = kind

\* C16: when a sandbox process is started, every fixture the command needs
\* has its file in place or its generator has run before and succeeded; a
\* generator runs only for a file that was not there and at most once for
\* each fixture; after a generator failed the command has returned 1 and has
\* started no process
C16_FixturesBeforeWorkers ==
    \A i \in 1..Len(front.log) : \A kind \in FixtureKinds :
        /\ (front.log[i].ev = "launch" /\ FixtureNeeded(kind))
               => \/ kind \in front.files
                  \/ \E j \in 1..(i - 1) : Generated(j, kind) /\ front.log[j].ok
        /\ Generated(i, kind)
               => /\ kind \notin front.files
                  /\ \A j \in 1..Len(front.log) : Generated(j, kind) => j = i
        /\ (Generated(i, kind) /\ ~front.log[i].ok)
               => front.pc = "returned" /\ front.ret = 1 /\ Launched = <<>>

\* Both generators ran, then the workers were started
C16_Witness ==
    /\ front.pc = "running"
    /\ front.files = {}
    /\ \A kind \in FixtureKinds :
           \E j \in 1..Len(front.log) : Generated(j, kind) /\ front.log[j].ok
    /\ Len(Launched) > 1

(***************************************************************************)
(* C17                                                                     *)
(***************************************************************************)
\* A selector of the command line matches no test of the inventory: parsed
\* as the command parses it, it has no suite and no test name ends with its
\* pattern, or it has a suite and no test of that suite fits
SelectorUnmatched ==
    LET r == uman_resolve_specs(front.all_tests,
                                parse_test_specs(front.tests, front.tool))
    IN r.unmatched # <<>> \/ validate_specs(front.all_tests, r.resolved) # <<>>

\* The suites of the inventory
InventorySuites == {front.all_tests[k][1] : k \in 1..Len(front.all_tests)}

\* C17: a command that found its sandbox and source tree and was given a
\* selector that matches no test has, once it looked at the selectors,
\* written an error and returned non-zero, and it has neither run a fixture
\* generator nor started the sandbox; the specs of a started sandbox all name
\* a suite of the inventory or 'all'. utool resolve_specs drops what it
\* cannot resolve and utool has no validation, so this is violated
C17_UnmatchedAbortsBeforeLaunch ==
    /\ (front.sandbox /\ front.uboot_dir /\ SelectorUnmatched
        /\ front.pc # "start")
           => /\ front.pc = "returned"
              /\ front.ret # 0
              /\ \E i \in 1..Len(front.log) : front.log[i].ev = "error"
              /\ \A i \in 1..Len(front.log) :
                     front.log[i].ev \notin {"launch", "generate"}
    /\ Launched # <<>>
           => \A k \in 1..Len(front.specs) :
                  front.specs[k][1] \in InventorySuites \cup {Word.all}

(***************************************************************************)
(* C18                                                                     *)
(***************************************************************************)
\* The number of candidates when the search began: the tests before the
\* target
InitialCandidates == pol.target_idx

\* C18: a turn of the search loop is taken only with more than one
\* candidate and leaves fewer candidates than it found, at least one; there
\* are never more than ceil(log2(n)) turns for n initial candidates; and a
\* search that began ends with do_pollute returning
C18_SearchShrinksAndEnds ==
    /\ [][pol'.step # pol.step
              => /\ pol'.step = pol.step + 1
                 /\ Len(pol.candidates) > 1
                 /\ Len(pol'.candidates) < Len(pol.candidates)
                 /\ Len(pol'.candidates) >= 1]_vars
    /\ [](pol.pc \in {"search", "returned"}
              => pol.step <= CeilLog2(InitialCandidates))
    /\ [](pol.pc = "search" /\ Len(pol.candidates) = 1 => ~ENABLED SearchStep)
    /\ (pol.pc = "search" ~> pol.pc = "returned")

\* The search took three turns for eight candidates and one is left
C18_Witness ==
    /\ pol.pc = "search"
    /\ InitialCandidates = 8
    /\ pol.step = 3
    /\ Len(pol.candidates) = 1

(***************************************************************************)
(* C19                                                                     *)
(***************************************************************************)
\* C19 as stated: do_pollute never runs more than ceil(log2(n)) + 2 probes
\* for n initial candidates. The two verifications before the search, the
\* turns of the search and the final verification make up to
\* ceil(log2(n)) + 3, so this is violated
C19_ProbesWithinLogPlusTwo ==
    InitialCandidates >= 1
        => Len(pol.probes) <= CeilLog2(InitialCandidates) + 2

\* C19, amended: do_pollute never runs more than ceil(log2(n)) + 3 probes for
\* n initial candidates: one with the target alone, one with all candidates,
\* one for each turn of the search, one with the single candidate left
C19_ProbesWithinLogPlusThree ==
    InitialCandidates >= 1
        => /\ Len(pol.probes) <= CeilLog2(InitialCandidates) + 3
           /\ Len(pol.probes)
                  = (IF pol.pc = "alone" THEN 0 ELSE 1)
                    + (IF pol.pc \in {"search", "returned"} /\ Len(pol.probes) >= 2
                       THEN 1 ELSE 0)
                    + pol.step
                    + (IF /\ pol.pc = "returned"
                          /\ Len(pol.probes) >= 3
                          /\ Len(pol.candidates) = 1
                       THEN 1 ELSE 0)

\* do_pollute returned after ceil(log2(8)) + 3 = 6 probes
C19_Witness ==
    /\ pol.pc = "returned"
    /\ InitialCandidates = 8
    /\ Len(pol.probes) = CeilLog2(InitialCandidates) + 3

(***************************************************************************)
(* C20                                                                     *)
(***************************************************************************)
\* The tests collected before the target, the target being the first test
\* that args.pollute is a part of; nothing when there is no such test
TestsBeforeTarget ==
    IF FindTarget(pol.tests, pol.target) = NoIndex THEN <<>>
    ELSE SubSeq(pol.tests, 1, FindTarget(pol.tests, pol.target))

\* C20: once do_pollute is searching (or has run a probe of the search or
\* the final one) the target was found after the first position, the first
\* probe ran the target alone and passed and the second ran all the tests
\* before the target and failed; with tests not collected, a target that is
\* not found or that is first, do_pollute returns 1 and has run no probe;
\* after a first probe that failed or a second that passed it has returned 1
\* and run no other probe
C20_VerifiedBeforeSearch ==
    /\ (pol.pc = "search" \/ Len(pol.probes) >= 3)
           => /\ pol.collected
              /\ pol.target_idx >= 1
              /\ pol.target_idx = FindTarget(pol.tests, pol.target)
              /\ pol.probes[1] = Probe(<<>>, FALSE)
              /\ pol.probes[2] = Probe(TestsBeforeTarget, TRUE)
    /\ (pol.pc # "start"
        /\ (~pol.collected \/ FindTarget(pol.tests, pol.target) \in {NoIndex, 0}))
           => pol.pc = "returned" /\ pol.ret = 1 /\ pol.probes = <<>>
    /\ (Len(pol.probes) >= 1 /\ pol.probes[1].failed)
           => pol.pc = "returned" /\ pol.ret = 1 /\ Len(pol.probes) = 1
    /\ (Len(pol.probes) >= 2 /\ ~pol.probes[2].failed)
           => pol.pc = "returned" /\ pol.ret = 1 /\ Len(pol.probes) = 2

\* The search has begun after both verifications
C20_Witness ==
    /\ pol.pc = "search"
    /\ pol.step = 1
    /\ Len(pol.probes) = 3
    /\ pol.probes[2] = Probe(TestsBeforeTarget, TRUE)

(***************************************************************************)
(* C21                                                                     *)
(***************************************************************************)
\* The last probe that do_pollute ran
LastProbe == pol.probes[Len(pol.probes)]

\* C21: when do_pollute has returned, it returned 0, or named a polluter, or
\* wrote 'Found', only if all three hold and its last probe, a third or
\* later one, ran exactly the one candidate left, which is the polluter it
\* names, and the target failed; when it has returned after a third or later
\* probe in which the target passed, it returned 1, wrote the inconclusive
\* message and names no polluter
C21_FoundOnlyIfReproduced ==
    pol.pc = "returned"
        => /\ (pol.ret = 0 \/ pol.polluter # None \/ pol.msg = "Found")
                  => /\ pol.ret = 0
                     /\ pol.msg = "Found"
                     /\ pol.polluter # None
                     /\ pol.candidates = <<pol.polluter>>
                     /\ Len(pol.probes) >= 3
                     /\ LastProbe = Probe(<<pol.polluter>>, TRUE)
           /\ (Len(pol.probes) >= 3 /\ ~LastProbe.failed)
                  => /\ pol.ret = 1
                     /\ pol.msg = "inconclusive"
                     /\ pol.polluter = None
                     /\ Len(pol.candidates) = 1
                     /\ LastProbe.before = pol.candidates

\* A polluter was named after a search of two turns
C21_Witness ==
    /\ pol.pc = "returned"
    /\ pol.ret = 0
    /\ pol.step = 2
    /\ pol.polluter = pol.candidates[1]

(***************************************************************************)
(* C22                                                                     *)
(***************************************************************************)
\* The places in the log of a command with this name
CallsOf(name) == {i \in 1..Len(bis.calls) : bis.calls[i].cmd = name}

\* The places in the log of any git bisect command
BisectCalls ==
    CallsOf("bisect start") \cup CallsOf("bisect bad") \cup CallsOf("bisect good")
        \cup CallsOf("bisect reset")

\* One of the four checks cannot succeed in this repository
SomeCheckFails ==
    \/ bis.rebase
    \/ bis.branch = None \/ ~bis.tracking
    \/ bis.builds[bis.tip]
    \/ ~bis.builds[0]

\* C22: every 'git bisect start' in the log comes after, in this order, a
\* git status of a repository with no rebase in progress, a rev-parse of an
\* upstream that resolves, a build at the original HEAD that fails, and a
\* checkout of the upstream followed by a build there that succeeds; and in
\* a repository where one of the checks fails no bisect command is ever run,
\* no bisection is open, and a do_bisect that has returned has returned 1
C22_ChecksBeforeBisectStart ==
    /\ \A s \in CallsOf("bisect start") :
           \E a, b, c, d \in 1..(s - 1) :
               /\ a < b /\ b < c /\ c + 1 < d
               /\ bis.calls[a].cmd = "status" /\ ~bis.rebase
               /\ bis.calls[b] = Call("rev-parse", <<"@", "{", "u", "}">>, bis.tip)
               /\ bis.branch # None /\ bis.tracking
               /\ bis.calls[c] = Call("buildman", None, bis.tip)
               /\ ~bis.builds[bis.tip]
               /\ bis.calls[d - 1] = Call("checkout", Hash(0), bis.tip)
               /\ bis.calls[d] = Call("buildman", None, 0)
               /\ bis.builds[0]
    /\ SomeCheckFails
           => /\ BisectCalls = {}
              /\ ~bis.bisecting
              /\ bis.pc \notin {"start", "loop", "finish"}
              /\ bis.pc = "returned" => bis.ret = 1

\* A bisection was started
C22_Witness ==
    /\ CallsOf("bisect start") # {}
    /\ bis.bisecting
    /\ bis.pc = "loop"

(***************************************************************************)
(* C23                                                                     *)
(***************************************************************************)
\* do_bisect has returned 1
Aborted == bis.pc = "returned" /\ bis.ret = 1

\* C23 (first half): a do_bisect that has returned 1 because of a rebase, an
\* upstream that does not resolve or a HEAD that builds has run no checkout
\* and no bisect command, and every do_bisect that has returned 1 has no
\* bisection open and has the commit checked out that it started from
AbortLeavesCommit ==
    Aborted
        => /\ bis.msg # "Upstream fails to build"
                  => CallsOf("checkout") = {} /\ BisectCalls = {}
           /\ ~bis.bisecting
           /\ bis.at = bis.tip

\* C23: a do_bisect that has returned 1 has left the commit it started from
\* checked out with no bisection open (and, unless the upstream build
\* failed, has run no checkout and no bisect command), and the repository is
\* on the branch it started from
C23_AbortRestoresBranch ==
    /\ AbortLeavesCommit
    /\ Aborted => bis.on = bis.branch

(***************************************************************************)
(* C24                                                                     *)
(***************************************************************************)
\* The commits whose hash the last captured output of git announces as the
\* first bad commit
AnnouncedCommits ==
    {k \in 0..bis.tip :
         Contains(bis.result, Hash(k) \o <<" ">> \o Git.first_bad \o <<"\n">>)}

\* The last n commands of the log
LastCalls(n) == LastN(bis.calls, n)

\* C24: do_bisect leaves the loop exactly when the captured output of a mark
\* announces a first bad commit; and when it has returned 0, git announced
\* one commit k, the last three commands were the log of k's subject, 'git
\* bisect reset' and then the checkout of the branch it started from, the
\* repository is on that branch with no bisection open, and the report is
\* 'First bad commit: ' with the hash of the announcement line in the
\* 12-character short form, which names k alone, a space and the subject of k
C24_ResetCheckoutReport ==
    /\ bis.pc = "loop" => AnnouncedCommits = {}
    /\ bis.pc = "finish" => AnnouncedCommits # {}
    /\ (bis.pc = "returned" /\ bis.ret = 0)
           => \E k \in AnnouncedCommits :
                  /\ AnnouncedCommits = {k}
                  /\ bis.branch # None
                  /\ Len(bis.calls) >= 3
                  /\ LastCalls(3)[1].cmd = "log" /\ LastCalls(3)[1].arg = Hash(k)
                  /\ LastCalls(3)[2].cmd = "bisect reset"
                  /\ LastCalls(3)[3].cmd = "checkout"
                  /\ LastCalls(3)[3].arg = bis.branch
                  /\ CallsOf("bisect reset") = {Len(bis.calls) - 1}
                  /\ bis.on = bis.branch /\ bis.at = bis.tip /\ ~bis.bisecting
                  /\ bis.report = Git.report \o SubSeq(Hash(k), 1, ShortLen)
                                  \o <<" ">> \o Subject(k)
                  /\ \A j \in 0..bis.tip :
                         SubSeq(Hash(j), 1, ShortLen) = SubSeq(Hash(k), 1, ShortLen)
                             => j = k

\* A bisection of three or more steps has returned 0 and reported a commit
\* that was not the last one built
C24_Witness ==
    /\ bis.pc = "returned"
    /\ bis.ret = 0
    /\ bis.step >= 3
    /\ bis.calls[Len(bis.calls) - 3].cmd = "bisect good"
    /\ AnnouncedCommits # {}

(***************************************************************************)
(* C25                                                                     *)
(***************************************************************************)
\* The name of a test without what comes before its 'test_' and that prefix
BareName(name) ==
    IF Contains(name, Word.test) THEN SplitOnce(name, Word.test)[2] ELSE name

\* The inventory test matches the spec: it has the suite and, for a pattern
\* that is not null, a name that ends with the pattern or, for a pattern with
\* glob characters, a bare name that matches it as a shell glob
TestMatches(test, spec) ==
    /\ test[1] = spec[1]
    /\ \/ spec[2] = None
       \/ EndsWith(test[2], spec[2])
       \/ HasGlob(spec[2]) /\ GlobMatch(BareName(test[2]), spec[2])

\* No test of the inventory matches the spec
NoTestMatches(spec) ==
    \A k \in 1..Len(sel.all_tests) : ~TestMatches(sel.all_tests[k], spec)

\* The specs that validate_specs was given and that no test matches, in the
\* order it was given them
SpecsWithoutTest == SelectSeq(sel.resolved, NoTestMatches)

\* The spec is not ('all', None), which validation is not about
NotAll(spec) == spec # <<Word.all, None>>

\* C25: leaving the spec ('all', None) aside, what validate_specs has
\* returned is the list of all specs it was given that no inventory test
\* matches, in the order it was given them
C25_AllUnmatchedInOrder ==
    sel.pc = "validated"
        => SelectSeq(sel.invalid, NotAll) = SelectSeq(SpecsWithoutTest, NotAll)

\* C25 for the lists of specs in which no pattern has a glob character
AllUnmatchedWithoutGlob ==
    (/\ sel.pc = "validated"
     /\ \A i \in 1..Len(sel.resolved) :
            sel.resolved[i][2] = None \/ ~HasGlob(sel.resolved[i][2]))
        => SelectSeq(sel.invalid, NotAll) = SelectSeq(SpecsWithoutTest, NotAll)

(***************************************************************************)
(* C26                                                                     *)
(***************************************************************************)
\* The spec ('all', None)
AllSpec == <<Word.all, None>>

\* C26: when ('all', None) is among the specs that validate_specs was given,
\* it is not among those it has returned; and for no argument and for the
\* one argument 'all' it has returned the empty list
C26_AllNeverReported ==
    sel.pc = "validated"
        => /\ (\E i \in 1..Len(sel.resolved) : sel.resolved[i] = AllSpec)
                  => \A j \in 1..Len(sel.invalid) : sel.invalid[j] # AllSpec
           /\ sel.tests \in {<<>>, <<Word.all>>} => sel.invalid = <<>>

\* C26 for no argument and for the one argument 'all'
AllAloneNeverReported ==
    (sel.pc = "validated" /\ sel.tests \in {<<>>, <<Word.all>>})
        => sel.resolved = <<AllSpec>> /\ sel.invalid = <<>>

(***************************************************************************)
(* C27                                                                     *)
(***************************************************************************)
\* C27: a spec that validate_specs was given, whose pattern has a glob
\* character and matches, as a shell glob, the bare name of a test of its
\* suite, is not among the specs that validate_specs has returned
C27_GlobPatternAccepted ==
    sel.pc = "validated"
        => \A i \in 1..Len(sel.resolved) :
               LET spec == sel.resolved[i]
               IN (/\ spec[2] # None
                   /\ HasGlob(spec[2])
                   /\ \E k \in 1..Len(sel.all_tests) :
                          /\ sel.all_tests[k][1] = spec[1]
                          /\ GlobMatch(BareName(sel.all_tests[k][2]), spec[2]))
                      => \A j \in 1..Len(sel.invalid) : sel.invalid[j] # spec

(***************************************************************************)
(* C28                                                                     *)
(***************************************************************************)
\* The inventory tests whose name ends with the pattern
Ending(pattern) ==
    {k \in 1..Len(sel.all_tests) : EndsWith(sel.all_tests[k][2], pattern)}

\* The one entry that resolve_specs is to emit for a spec
Entry(spec) ==
    IF spec[1] # None THEN spec
    ELSE IF Ending(spec[2]) = {} THEN <<None, spec[2]>>
    ELSE <<sel.all_tests[CHOOSE k \in Ending(spec[2]) :
                             \A j \in Ending(spec[2]) : k <= j][1], spec[2]>>

\* The entries for the parsed specs, in their order
Entries == [i \in 1..Len(sel.specs) |-> Entry(sel.specs[i])]

\* The entry has a suite
HasSuite(entry) == entry[1] # None

\* The entry has no suite
HasNoSuite(entry) == entry[1] = None

\* resolve_specs has returned
Resolved == sel.pc \in {"resolved", "validated"}

\* C28: when resolve_specs has returned, the resolved list holds, in the
\* order of the specs, the entry of every spec that has a suite or whose
\* pattern ends the name of some test (then with the suite of the first such
\* test), the unmatched list holds, in order, (None, pattern) for every
\* other spec, and the two lists together have one entry for each spec
C28_ResolveKeepsEverySpec ==
    Resolved
        => /\ sel.resolved = SelectSeq(Entries, HasSuite)
           /\ sel.unmatched = SelectSeq(Entries, HasNoSuite)
           /\ Len(sel.resolved) + Len(sel.unmatched) = Len(sel.specs)

\* C28 for uman
UmanResolveKeepsEverySpec ==
    (Resolved /\ sel.tool = "uman")
        => /\ sel.resolved = SelectSeq(Entries, HasSuite)
           /\ sel.unmatched = SelectSeq(Entries, HasNoSuite)
           /\ Len(sel.resolved) + Len(sel.unmatched) = Len(sel.specs)

(***************************************************************************)
(* C29                                                                     *)
(***************************************************************************)
\* The token of an argument: its first word
Token(arg) == SplitSpace(arg)[1]

\* The rest of an argument: what follows the first run of whitespace after
\* the token; None when nothing does
Rest(arg) == IF Len(SplitSpace(arg)) > 1 THEN SplitSpace(arg)[2] ELSE None

\* The places of token where lit begins
Places(token, lit) == {i \in 1..Len(token) : LitAt(token, i, lit)}

\* token before the first lit in it, and token after that lit
SplitAtFirst(token, lit) ==
    LET at == CHOOSE i \in Places(token, lit) : \A j \in Places(token, lit) : i <= j
    IN <<SubSeq(token, 1, at - 1), SubSeq(token, at + Len(lit), Len(token))>>

\* The rules (1) to (4) for a token and a rest
FourRules(token, rest) ==
    IF Places(token, <<"_", "t", "e", "s", "t", "_">>) # {} THEN SplitAtFirst(token, <<"_", "t", "e", "s", "t", "_">>)
    ELSE IF LitAt(token, 1, <<"t", "e", "s", "t", "_">>)
         THEN <<None, SubSeq(token, Len(<<"t", "e", "s", "t", "_">>) + 1, Len(token))>>
    ELSE IF Places(token, <<"_">>) # {} /\ rest = None THEN <<None, token>>
    ELSE <<token, rest>>

\* uman: a token that starts with 'ut_' is taken without it
Stripped(token) ==
    IF LitAt(token, 1, <<"u", "t", "_">>) THEN SubSeq(token, 4, Len(token)) ELSE token

\* uman: the two rules that come first, then the rules (1) to (4)
UmanRules(token, rest) ==
    IF /\ LitAt(token, 1, <<"u", "t", "_">>)
       /\ Places(Stripped(token), <<"_">>) # {}
       /\ rest = None
    THEN SplitAtFirst(Stripped(token), <<"_">>)
    ELSE IF Places(Stripped(token), <<".">>) # {} /\ rest = None
         THEN SplitAtFirst(Stripped(token), <<".">>)
    ELSE FourRules(Stripped(token), rest)

\* parse_test_specs has parsed every argument with parse_one_test
ParsedEach ==
    /\ sel.pc # "start"
    /\ sel.tests \notin {<<>>, <<Word.all>>}
    /\ ~(Len(sel.tests) = 2 /\ HasGlob(sel.tests[2]))

\* C29 as stated: utool parse_one_test and uman parse_one_test give, for
\* every argument, what the rules (1) to (4) give for its token and rest
C29_FourRulesInBothTools ==
    ParsedEach
        => /\ Len(sel.specs) = Len(sel.tests)
           /\ \A k \in 1..Len(sel.tests) :
                  sel.specs[k] = FourRules(Token(sel.tests[k]), Rest(sel.tests[k]))

\* C29, amended: utool parse_one_test gives, for every argument, what the
\* rules (1) to (4) give for its token and rest; uman parse_one_test gives
\* what they give after its two earlier rules: a token that starts with
\* 'ut_' loses that prefix and, when what is left has an underscore and
\* there is no rest, is split at its first underscore into (suite, pattern);
\* failing that, a token with a '.' and no rest is split at its first '.'
C29_FourRulesAfterUmanRules ==
    ParsedEach
        => /\ Len(sel.specs) = Len(sel.tests)
           /\ \A k \in 1..Len(sel.tests) :
                  sel.specs[k] =
                      IF sel.tool = "uman"
                      THEN UmanRules(Token(sel.tests[k]), Rest(sel.tests[k]))
                      ELSE FourRules(Token(sel.tests[k]), Rest(sel.tests[k]))

\* uman has parsed a pytest name, which the four rules would take for a
\* pattern to search in all suites
C29_Witness ==
    /\ ParsedEach
    /\ sel.tool = "uman"
    /\ sel.tests = <<<<"u", "t", "_", "l", "i", "b", "_", "a", "b", "c">>>>
    /\ sel.specs = <<<<<<"l", "i", "b">>, <<"a", "b", "c">>>>>>
    /\ sel.specs[1] # FourRules(Token(sel.tests[1]), Rest(sel.tests[1]))

(***************************************************************************)
(* C30                                                                     *)
(***************************************************************************)
\* What the single-argument rule of the tool gives for an argument
OneSpec(arg) ==
    IF sel.tool = "uman" THEN UmanRules(Token(arg), Rest(arg))
    ELSE FourRules(Token(arg), Rest(arg))

\* The second of two arguments has one of the characters * ? [
SecondHasGlob ==
    /\ Len(sel.tests) = 2
    /\ \E i \in 1..Len(sel.tests[2]) :
           sel.tests[2][i] = "*" \/ sel.tests[2][i] = "?" \/ sel.tests[2][i] = "["

\* C30: what parse_test_specs has returned is [('all', None)] for no
\* argument and for the one argument 'all'; the one spec (args[0], args[1])
\* for two arguments of which the second has one of * ? [; and for every
\* other input one spec for each argument, in the order of the arguments,
\* each the single-argument parse of its argument alone
C30_ParseTestSpecsCases ==
    sel.pc # "start"
        => IF sel.tests = <<>> \/ sel.tests = <<<<"a", "l", "l">>>>
           THEN sel.specs = <<<<<<"a", "l", "l">>, None>>>>
           ELSE IF SecondHasGlob
                THEN sel.specs = <<<<sel.tests[1], sel.tests[2]>>>>
           ELSE /\ Len(sel.specs) = Len(sel.tests)
                /\ \A k \in 1..Len(sel.tests) : sel.specs[k] = OneSpec(sel.tests[k])

\* Two arguments were taken verbatim as one spec because of a '?'
C30_Witness ==
    /\ sel.pc # "start"
    /\ sel.tests = <<<<"d", "m">>, <<"x", "?">>>>
    /\ sel.specs = <<<<<<"d", "m">>, <<"x", "?">>>>>>

\* Three arguments, the last with a '*', were parsed one by one
ThreeParsedWitness ==
    /\ sel.pc # "start"
    /\ Len(sel.tests) = 3
    /\ Len(sel.specs) = 3
    /\ HasGlob(sel.tests[3])

(***************************************************************************)
(* C31                                                                     *)
(***************************************************************************)
\* The text has a whitespace character
HasSpace(text) == \E i \in 1..Len(text) : IsSpace(text[i])

PlainSuite(spec) ==
    /\ spec[1] # <<>>
    /\ ~HasSpace(spec[1])
    /\ ~Contains(spec[1], Word.infix)
    /\ ~StartsWith(spec[1], Word.test)
    /\ sel.tool = "uman" => ~StartsWith(spec[1], Word.ut) /\ ~Contains(spec[1], <<".">>)

\* The spec has no pattern, or one that is a plain word: not empty, with no
\* whitespace, and for uman with no '.' in it
PlainPattern(spec) ==
    \/ spec[2] = None
    \/ /\ spec[2] # <<>>
       /\ ~HasSpace(spec[2])
       /\ sel.tool = "uman" => ~Contains(spec[2], <<".">>)

Matching ==
    {i \in 1..Len(sel.test_flags) :
         Truthy(sel.pattern)
             => PatternMatch(sel.suite, sel.test_flags[i][1], sel.pattern)}

\* C32: the count predicted with the flat tree is not less than the count
\* predicted without it, and each of the two is not negative and not more
\* than twice the number of matching records
C32_FlatTreeNeverReduces ==
    sel.pc = "predicted"
        => /\ sel.count[TRUE] >= sel.count[FALSE]
           /\ \A flattree \in BOOLEAN :
                  /\ sel.count[flattree] >= 0
                  /\ sel.count[flattree] <= 2 * Cardinality(Matching)

\* Two records, one that runs only with the flat tree and one that runs
\* twice with it: 1 without the flat tree, 3 with it
C32_Witness ==
    /\ sel.pc = "predicted"
    /\ Cardinality(Matching) = 2
    /\ sel.count[FALSE] = 1
    /\ sel.count[TRUE] = 3

(***************************************************************************)
(* C33                                                                     *)
(***************************************************************************)
\* The bit is set in flags, a number below 256
Flagged(flags, bit) ==
    \E hi \in 0..(255 \div (2 * bit)), lo \in 0..(bit - 1) :
        flags = hi * 2 * bit + bit + lo

\* What one record contributes
Contribution(name, flags, flattree) ==
    IF Flagged(flags, 8) THEN (IF flattree THEN 1 ELSE 0)
    ELSE IF /\ flattree
            /\ Flagged(flags, 128)
            /\ ~Flagged(flags, 16)
            /\ ~Contains(name, <<"v", "i", "d", "e", "o">>) \/ Contains(name, <<"v", "i", "d", "e", "o", "_", "b", "a", "s", "e">>)
         THEN 2
    ELSE 1

RECURSIVE SumOfContributions(_, _)
\* The sum of the contributions of the records at the places in S
SumOfContributions(S, flattree) ==
    IF S = {} THEN 0
    ELSE LET i == CHOOSE k \in S : TRUE
         IN Contribution(sel.test_flags[i][1], sel.test_flags[i][2], flattree)
            + SumOfContributions(S \ {i}, flattree)

\* C33: each predicted count is the sum of the contributions of the matching
\* records
C33_CountIsSumOfContributions ==
    sel.pc = "predicted"
        => \A flattree \in BOOLEAN :
               sel.count[flattree] = SumOfContributions(Matching, flattree)

\* A video test and video_base, both DM tests with another flag: 2 without
\* the flat tree, 3 with it
C33_Witness ==
    /\ sel.pc = "predicted"
    /\ sel.test_flags = <<<<<<"d", "m", "_", "t", "e", "s", "t", "_", "v", "i", "d", "e", "o", "_", "b", "a", "s", "e">>, 129>>, <<<<"d", "m", "_", "t", "e", "s", "t", "_", "v", "i", "d", "e", "o", "_", "x">>, 129>>>>
    /\ sel.pattern = <<"v", "i", "d", "e", "o", "*">>
    /\ sel.count[FALSE] = 2
    /\ sel.count[TRUE] = 3

(***************************************************************************)
(* C34                                                                     *)
(***************************************************************************)
\* The command lines with which uman started the sandbox
UtCommandLines ==
    {front.log[i].args : i \in {k \in 1..Len(front.log) :
                                    /\ front.log[k].ev = "launch"
                                    /\ front.log[k].kind = "sandbox"
                                    /\ front.tool = "uman"}}

\* The words of the clause of one spec: ut, the flags, the suite, the pattern
ClauseWords(spec) ==
    <<<<"u", "t">>>>
    \o (IF front.legacy THEN <<>> ELSE <<<<"-", "E">>>>)
    \o (IF front.manual THEN <<<<"-", "m">>>> ELSE <<>>)
    \o <<spec[1]>>
    \o (IF spec[2] # None /\ spec[2] # <<>> THEN <<spec[2]>> ELSE <<>>)

\* The clauses of the specs, in their order
Clauses ==
    [k \in 1..Len(front.specs) |-> Join(ClauseWords(front.specs[k]), <<" ">>)]

\* C34: the command line of uman is the binary, '-T', '-F' unless full, '-v'
\* when verbose, '-c' and the clauses of the specs joined by '; '
C34_UtCommandLine ==
    \A c \in UtCommandLines :
        LET n == Len(c)
        IN /\ n = 4 + (IF front.flattree THEN 0 ELSE 1)
                    + (IF front.verbose THEN 1 ELSE 0)
           /\ c[1] = Word.sandbox
           /\ c[2] = <<"-", "T">>
           /\ (c[3] = <<"-", "F">>) <=> ~front.flattree
           /\ (c[n - 2] = <<"-", "v">>) <=> front.verbose
           /\ c[n - 1] = <<"-", "c">>
           /\ c[n] = Join(Clauses, <<";", " ">>)

\* A full, verbose, manual run of two suites: u-boot -T -v -c
\* 'ut -E -m lib; ut -E -m dm'
C34_Witness ==
    /\ front.flattree /\ front.verbose /\ front.manual /\ ~front.legacy
    /\ <<Word.sandbox, <<"-", "T">>, <<"-", "v">>, <<"-", "c">>, <<"u", "t", " ", "-", "E", " ", "-", "m", " ", "l", "i", "b", ";", " ", "u", "t", " ", "-", "E", " ", "-", "m", " ", "d", "m">>>>
           \in UtCommandLines

\* A run of one test of a suite, for an older U-Boot: u-boot -T -F -c
\* 'ut lib abc'
PatternClauseWitness ==
    <<Word.sandbox, <<"-", "T">>, <<"-", "F">>, <<"-", "c">>, <<"u", "t", " ", "l", "i", "b", " ", "a", "b", "c">>>> \in UtCommandLines

(***************************************************************************)
(* C35                                                                     *)
(***************************************************************************)
\* The commands that the step from this state to the next one ran
NewCalls == SubSeq(bis'.calls, Len(bis.calls) + 1, Len(bis'.calls))

\* The places in calls of the builds, and of the marks
BuildsIn(calls) == {i \in 1..Len(calls) : calls[i].cmd = "buildman"}
MarksIn(calls) ==
    {i \in 1..Len(calls) : calls[i].cmd \in {"bisect good", "bisect bad"}}

\* The step that starts the bisection marks the original HEAD bad and then
\* the upstream good, right after git bisect start
MarksEndpoints ==
    bis.pc = "start" /\ bis'.pc # "start"
        => NewCalls = <<Call("bisect start", None, bis.at),
                        Call("bisect bad", Hash(bis.tip), bis.at),
                        Call("bisect good", Hash(0), bis.at)>>

\* A turn of the loop builds once, the commit that git checked out, and then
\* marks once, good exactly when the build succeeded; the loop is left only
\* with the announcement in what the mark wrote
BuildsAndMarksOnce ==
    bis.pc = "loop" /\ bis'.calls # bis.calls
        => /\ \E i, j \in 1..Len(NewCalls) :
                  /\ BuildsIn(NewCalls) = {i}
                  /\ MarksIn(NewCalls) = {j}
                  /\ i < j
                  /\ NewCalls[i].at = bis.at
                  /\ NewCalls[j] = Call(IF bis.builds[bis.at] THEN "bisect good"
                                        ELSE "bisect bad", None, bis.at)
           /\ bis'.pc # "loop" => Contains(bis'.result, Git.first_bad)

\* C35: git bisect start is followed by the mark of the original HEAD as bad
\* and then of the upstream as good; every turn of the loop is one build of
\* the commit that is checked out and one mark, good iff the build succeeded;
\* the loop ends only on 'is the first bad commit' in what the mark wrote
C35_EndpointsThenOneBuildOneMark ==
    [][MarksEndpoints /\ BuildsAndMarksOnce]_vars

\* A bisection of three turns that marked good in one and bad in another
C35_Witness ==
    /\ bis.pc = "finish"
    /\ bis.step = 3
    /\ \E i, j \in MarksIn(bis.calls) :
           /\ bis.calls[i] = Call("bisect good", None, bis.calls[i].at)
           /\ bis.calls[j] = Call("bisect bad", None, bis.calls[j].at)

(***************************************************************************)
(* C36                                                                     *)
(***************************************************************************)
\* The command looked for the dm fixture
DmChecked ==
    \E i \in 1..Len(front.log) :
        front.log[i].ev = "exists" /\ front.log[i].kind = "dm"

\* A spec of the dm suite or of all suites, or one whose pattern has the name
\* of a host test in it
CoversDm(spec) ==
    \/ spec[1] = <<"d", "m">>
    \/ spec[1] = <<"a", "l", "l">>
    \/ /\ spec[2] # None
       /\ \E name \in {<<"c", "m", "d", "_", "h", "o", "s", "t">>, <<"h", "o", "s", "t">>, <<"h", "o", "s", "t", "_", "d", "u", "p">>} :
              Contains(spec[2], name)

\* The command is past the dm fixture, on its way to the launch
PastDmInit == front.pc \in {"bootstd_init", "launch", "running"}

\* C36: a run that gets to the launch has looked for the dm fixture exactly
\* when one of its resolved specs covers the dm suite or a host test, and no
\* run looks for it otherwise
C36_DmCheckIffDmSpec ==
    /\ PastDmInit
           => (DmChecked <=> \E i \in 1..Len(front.specs) : CoversDm(front.specs[i]))
    /\ DmChecked => \E i \in 1..Len(front.specs) : CoversDm(front.specs[i])

\* The same of uman alone
UmanDmCheckIffDmSpec == front.tool = "uman" => C36_DmCheckIffDmSpec

\* utool test 'dm zz' gets to the launch of ut dm zz without a look for the
\* dm fixture
DmSpecWithoutCheck ==
    /\ front.tool = "utool"
    /\ front.tests = <<<<"d", "m", " ", "z", "z">>>>
    /\ front.specs = <<<<<<"d", "m">>, <<"z", "z">>>>>>
    /\ front.pc = "running"
    /\ ~DmChecked

(***************************************************************************)
(* C38                                                                     *)
(***************************************************************************)
\* The tests collected before the target, once the target is found and is
\* not the first test
BeforeTarget == SubSeq(pol.tests, 1, pol.target_idx)

\* The candidates are the tests from place a to place b of those collected
\* before the target, and there is at least one
ContiguousBeforeTarget ==
    \E a, b \in 1..Len(BeforeTarget) :
        /\ a <= b
        /\ pol.candidates = [k \in 1..(b - a + 1) |-> BeforeTarget[a + k - 1]]

\* C38: from the collection on, the candidates are a non-empty contiguous
\* part, in order, of the tests collected before the target, the target is
\* not one of them, and do_pollute never ends with 'No polluter found'
C38_CandidatesContiguousNonEmpty ==
    /\ pol.target_idx >= 1
           => /\ ContiguousBeforeTarget
              /\ pol.candidates # <<>>
              /\ \A k \in 1..Len(pol.candidates) : pol.candidates[k] # pol.target
    /\ pol.msg # "No polluter found"

\* Two turns of the search have left candidates from the middle of the tests
\* before the target
C38_Witness ==
    /\ pol.pc = "search"
    /\ pol.step >= 2
    /\ pol.target_idx >= 1
    /\ Len(pol.candidates) >= 2
    /\ pol.candidates[1] # pol.tests[1]
    /\ pol.candidates[Len(pol.candidates)] # pol.tests[pol.target_idx]
    /\ ContiguousBeforeTarget

(***************************************************************************)
(* C37                                                                     *)
(***************************************************************************)
\* do_pollute has returned 0 and has named the one test that pollutes
FoundCulprit ==
    /\ pol.pc = "returned"
    /\ pol.ret = 0
    /\ pol.msg = "Found"
    /\ pol.polluter = pol.culprit

\* C37: when exactly one of the tests before the target pollutes it,
\* do_pollute returns 0 and reports that test, however many tests there are
\* before the target and wherever the polluter is among them
C37_SinglePolluterFound == <>FoundCulprit

\* The polluter is the fifth of eight tests before the target
C37_Witness ==
    /\ FoundCulprit
    /\ pol.target_idx = 8
    /\ pol.culprit = NodeId(5)
    /\ pol.step = 3

(***************************************************************************)
(* C39                                                                     *)
(***************************************************************************)
RECURSIVE SuitesAtTests(_, _, _, _)
\* For every 'Test:' line of lines, in order, the suite that is current when
\* the line is read: suite is current before the first line, a 'Running'
\* line names the current suite, and 'Tests run:' line number idx + 1 makes
\* the suite of the next spec current when there is one
SuitesAtTests(lines, suite, idx, specs) ==
    IF lines = <<>> THEN <<>>
    ELSE LET line == Head(lines)
             rest == Tail(lines)
         IN IF MatchRunning(line).ok
            THEN SuitesAtTests(rest, MatchRunning(line).g2, idx, specs)
            ELSE IF MatchTest(line).ok
            THEN <<suite>> \o SuitesAtTests(rest, suite, idx, specs)
            ELSE IF MatchTestsRun(line).ok
            THEN SuitesAtTests(rest,
                               IF idx + 1 < Len(specs) THEN specs[idx + 2][1]
                               ELSE suite,
                               idx + 1, specs)
            ELSE SuitesAtTests(rest, suite, idx, specs)

\* The suites under which the tests of worker w were opened
OpenedUnder(w) ==
    SuitesAtTests(CompleteLines(progs[w].output_lines),
                  IF progs[w].specs # <<>> THEN progs[w].specs[1][1] ELSE <<>>,
                  0, progs[w].specs)

\* The outcomes of worker w are recorded, and its failures reported, under
\* the suites under which the tests were opened
RecordedAsOpened(w) ==
    LET opened == OpenedUnder(w)
        outcomes == progs[w].test_results
        failed == {k \in 1..Len(outcomes) : ~outcomes[k][3]}
        nth(j) == CHOOSE k \in failed :
                      Cardinality({i \in failed : i < k}) = j - 1
    IN /\ \A k \in 1..Len(outcomes) : outcomes[k][1] = opened[k]
       /\ Len(progs[w].failed_tests) = Cardinality(failed)
       /\ \A j \in 1..Cardinality(failed) :
              progs[w].failed_tests[j] = <<opened[nth(j)], outcomes[nth(j)][2]>>

\* C39: every outcome is recorded, and every failure reported, under the
\* suite that was current when the 'Test:' line of its test was read. A
\* 'Running N <suite> tests' line read while the test is open changes the
\* suite under which the test is recorded, which violates this
C39_RecordedUnderSuiteAtOpen ==
    \A w \in Workers : cmd # "uman" => RecordedAsOpened(w)

\* A 'Running' line was read while a test was open
RECURSIVE RunningWhileOpen(_, _)
RunningWhileOpen(lines, open) ==
    IF lines = <<>> THEN FALSE
    ELSE LET line == Head(lines)
         IN IF MatchRunning(line).ok
            THEN open \/ RunningWhileOpen(Tail(lines), open)
            ELSE IF MatchTest(line).ok THEN RunningWhileOpen(Tail(lines), TRUE)
            ELSE IF MatchTestsRun(line).ok
            THEN RunningWhileOpen(Tail(lines), FALSE)
            ELSE RunningWhileOpen(Tail(lines), open)

\* The same, for the streams in which no 'Running' line comes while a test
\* is open: the advance to the next spec does not change the recorded suite
AdvanceKeepsSuite ==
    \A w \in Workers :
        (cmd # "uman"
         /\ ~RunningWhileOpen(CompleteLines(progs[w].output_lines), FALSE))
            => RecordedAsOpened(w)

\* 'Test: a', then 'Running 2 lib tests', then 'Tests run:' in a run of the
\* dm suite: the test is recorded under lib
RecordedUnderLaterSuite ==
    /\ cmd = "seq"
    /\ progs[0].specs = <<<<SuiteDm, <<>>>>>>
    /\ CompleteLines(progs[0].output_lines)
           = <<LineTest, LineRunning, LineTestsRun>>
    /\ progs[0].test_results = <<<<SuiteLib, <<"a">>, TRUE>>>>

\* 'Test: a', 'Tests run:', 'Test: a' in a run of dm and lib: the first test
\* is recorded under dm although lib is current after the summary line
AdvanceAfterRecordWitness ==
    /\ cmd = "seq"
    /\ Len(progs[0].specs) = 2
    /\ CompleteLines(progs[0].output_lines) = <<LineTest, LineTestsRun, LineTest>>
    /\ progs[0].test_results = <<<<SuiteDm, <<"a">>, TRUE>>>>
    /\ progs[0].suite = SuiteLib

(***************************************************************************)
(* C40                                                                     *)
(***************************************************************************)
\* The commits between the last one marked good and the first one marked bad,
\* the latter included
Range == bis.bad - bis.good

\* C40: when every git and build command returns, a bisection that has
\* started ends with do_bisect returning 0. Every turn of the loop that does
\* not end it leaves fewer commits in the range, so that the turns taken and
\* the commits left never exceed the commits between the upstream and HEAD;
\* and the loop is left only with a first bad commit parsed from what the
\* mark wrote
C40_BisectionReturns ==
    /\ (bis.pc = "loop" ~> (bis.pc = "returned" /\ bis.ret = 0))
    /\ [](bis.pc = "loop" => bis.step + Range <= bis.tip + 1)
    /\ [][bis.pc = "loop" /\ bis'.pc = "loop" /\ bis'.step # bis.step
              => /\ bis'.step = bis.step + 1
                 /\ bis'.bad - bis'.good < Range
                 /\ ~Contains(bis'.result, Git.first_bad)]_vars
    /\ [][bis.pc = "loop" /\ bis'.pc # "loop"
              => /\ bis'.pc = "finish"
                 /\ bis'.bad - bis'.good = 1
                 /\ Contains(bis'.result, Git.first_bad)
                 /\ bis'.bad_commit = Hash(bis'.bad)]_vars

\* The longest bisection of four commits: three turns, then the return
C40_Witness ==
    /\ bis.pc = "returned"
    /\ bis.ret = 0
    /\ bis.tip = MaxCommits
    /\ bis.step = MaxCommits - 1

====
